---- MODULE Spec2Model ----
(***************************************************************************)
(* A model of Protoscope: the assembler (Scanner.Exec), the disassembler   *)
(* (Write) with its line printer, and the varint codec they share.         *)
(*                                                                         *)
(* Text and wire bytes are sequences of byte values 0..255, as Go strings  *)
(* and []byte are.  A 64-bit word is four 16-bit limbs, least significant  *)
(* first, so that every step of the code's 64-bit arithmetic (shifts,      *)
(* masks, wrap-around) is computed at its real width.                      *)
(***************************************************************************)
EXTENDS Integers, Sequences, FiniteSets, TLC

----------------------------------------------------------------------------
(* Characters.  Ord maps a one-character string to its byte value; B turns  *)
(* a string constant of the model into the bytes Go holds for it.          *)

AsciiTable ==
  " !\"#$%&'(" \o ")*+,-./0123456789:;<=>?@ABCDEFGHIJKLMNOPQRSTUVWXYZ[\\]^_"

AsciiLower == "abcdefghijklmnopqrstuvwxyz{|}~"

Ord ==
  [c \in {SubSeq(AsciiTable, i, i) : i \in 1..Len(AsciiTable)}
         \cup {SubSeq(AsciiLower, i, i) : i \in 1..Len(AsciiLower)}
         \cup {"\n", "\t", "\r"} |->
     IF c = "\n" THEN 10
     ELSE IF c = "\t" THEN 9
     ELSE IF c = "\r" THEN 13
     ELSE IF \E i \in 1..Len(AsciiTable) : SubSeq(AsciiTable, i, i) = c
          THEN 31 + (CHOOSE i \in 1..Len(AsciiTable) : SubSeq(AsciiTable, i, i) = c)
          ELSE 96 + (CHOOSE i \in 1..Len(AsciiLower) : SubSeq(AsciiLower, i, i) = c)]

RECURSIVE BFrom(_, _)
BFrom(s, i) == IF i > Len(s) THEN <<>> ELSE <<Ord[SubSeq(s, i, i)]>> \o BFrom(s, i + 1)

B(s) == BFrom(s, 1)

Byte == 0..255

chBacktick == 96
chQuote == 34
chBackslash == 92
chNewline == 10

----------------------------------------------------------------------------
(* 64-bit words: <<l1, l2, l3, l4>>, value l1 + 2^16 l2 + 2^32 l3 + 2^48 l4 *)

Limb == 256 * 256

U64Zero == <<0, 0, 0, 0>>

U64Max == <<65535, 65535, 65535, 65535>>

\* uint64(n) for a small non-negative int n (n < 2^31).
U64(n) == <<n % Limb, n \div Limb, 0, 0>>

RECURSIVE Pow2(_)
Pow2(k) == IF k = 0 THEN 1 ELSE 2 * Pow2(k - 1)

RECURSIVE And16(_, _)
And16(a, b) ==
  IF a = 0 \/ b = 0 THEN 0
  ELSE (IF a % 2 = 1 /\ b % 2 = 1 THEN 1 ELSE 0) + 2 * And16(a \div 2, b \div 2)

RECURSIVE Or16(_, _)
Or16(a, b) ==
  IF a = 0 THEN b ELSE IF b = 0 THEN a
  ELSE (IF a % 2 = 1 \/ b % 2 = 1 THEN 1 ELSE 0) + 2 * Or16(a \div 2, b \div 2)

RECURSIVE Xor16(_, _)
Xor16(a, b) ==
  IF a = 0 THEN b ELSE IF b = 0 THEN a
  ELSE ((a + b) % 2) + 2 * Xor16(a \div 2, b \div 2)

U64And(a, b) ==
  <<And16(a[1], b[1]), And16(a[2], b[2]), And16(a[3], b[3]), And16(a[4], b[4])>>

U64Or(a, b) ==
  <<Or16(a[1], b[1]), Or16(a[2], b[2]), Or16(a[3], b[3]), Or16(a[4], b[4])>>

U64Xor(a, b) ==
  <<Xor16(a[1], b[1]), Xor16(a[2], b[2]), Xor16(a[3], b[3]), Xor16(a[4], b[4])>>

U64Not(a) == <<65535 - a[1], 65535 - a[2], 65535 - a[3], 65535 - a[4]>>

\* Limb i of a, or 0 outside 1..4.
LimbAt(a, i) == IF i \in 1..4 THEN a[i] ELSE 0

\* a << k for 0 <= k < 64, bits shifted past bit 63 are lost.
U64Shl(a, k) ==
  LET q == k \div 16
      r == k % 16
      p == Pow2(r)
      c == Pow2(16 - r)
      L(i) == ((LimbAt(a, i - q) * p) % Limb) + ((LimbAt(a, i - q - 1) \div c) % Limb)
  IN  <<L(1), L(2), L(3), L(4)>>

\* a >> k, logical, for 0 <= k < 64.
U64Shr(a, k) ==
  LET q == k \div 16
      r == k % 16
      p == Pow2(r)
      c == Pow2(16 - r)
      L(i) == (LimbAt(a, i + q) \div p) + ((LimbAt(a, i + q + 1) % p) * c)
  IN  <<L(1), L(2), L(3), L(4)>>

\* Bit 63: the sign of the word read as an int64.
U64Neg63(a) == a[4] >= 32768

\* int64 >> 63 (arithmetic): all ones for a negative word, else zero.
U64Sar63(a) == IF U64Neg63(a) THEN U64Max ELSE U64Zero

\* a + 1 modulo 2^64.
U64Inc(a) ==
  IF a[1] < 65535 THEN [a EXCEPT ![1] = a[1] + 1]
  ELSE IF a[2] < 65535 THEN [a EXCEPT ![1] = 0, ![2] = a[2] + 1]
  ELSE IF a[3] < 65535 THEN [a EXCEPT ![1] = 0, ![2] = 0, ![3] = a[3] + 1]
  ELSE <<0, 0, 0, (a[4] + 1) % Limb>>

\* -a modulo 2^64 (two's complement negation, as Go's -value on int64).
U64Negate(a) == U64Inc(U64Not(a))

\* a < b as unsigned words.
U64Less(a, b) ==
  \/ a[4] < b[4]
  \/ a[4] = b[4] /\ a[3] < b[3]
  \/ a[4] = b[4] /\ a[3] = b[3] /\ a[2] < b[2]
  \/ a[4] = b[4] /\ a[3] = b[3] /\ a[2] = b[2] /\ a[1] < b[1]

\* a < b as int64.
I64Less(a, b) ==
  IF U64Neg63(a) # U64Neg63(b) THEN U64Neg63(a) ELSE U64Less(a, b)

\* a * m + c for small m, c: [v |-> low 64 bits, carry |-> what overflowed].
U64MulAdd(a, m, c) ==
  LET t1 == (a[1] * m) + c
      t2 == (a[2] * m) + (t1 \div Limb)
      t3 == (a[3] * m) + (t2 \div Limb)
      t4 == (a[4] * m) + (t3 \div Limb)
  IN  [v |-> <<t1 % Limb, t2 % Limb, t3 % Limb, t4 % Limb>>, carry |-> t4 \div Limb]

\* a divided by a small d: [q |-> quotient, r |-> remainder].
U64DivMod(a, d) ==
  LET q4 == a[4] \div d
      r4 == a[4] % d
      q3 == ((r4 * Limb) + a[3]) \div d
      r3 == ((r4 * Limb) + a[3]) % d
      q2 == ((r3 * Limb) + a[2]) \div d
      r2 == ((r3 * Limb) + a[2]) % d
      q1 == ((r2 * Limb) + a[1]) \div d
      r1 == ((r2 * Limb) + a[1]) % d
  IN  [q |-> <<q1, q2, q3, q4>>, r |-> r1]

\* The word as a model integer, for words below 2^31 only.
U64Small(a) == a[3] = 0 /\ a[4] = 0 /\ a[2] < 32768

U64ToInt(a) == a[1] + (Limb * a[2])

----------------------------------------------------------------------------
(* The varint codec.                                                       *)

\* The loop of encodeVarint: while value > 0x7f, emit the low seven bits
\* with the continuation bit; then the last byte.
RECURSIVE encodeCanonical(_)
encodeCanonical(value) ==
  IF U64Less(U64(127), value)
  THEN <<(value[1] % 128) + 128>> \o encodeCanonical(U64Shr(value, 7))
  ELSE <<value[1]>>

\* The longForm > 1 loop of encodeVarint: longForm - 1 bytes 0x80.
RECURSIVE padding(_)
padding(longForm) == IF longForm > 1 THEN <<128>> \o padding(longForm - 1) ELSE <<>>

\* encodeVarint with the continuation bit of the last canonical byte
\* forgotten (dest[len(dest)-1] |= 0x80 left out).
encodeVarintNoContinuation(dest, value, longForm) ==
  LET canon == encodeCanonical(value)
  IN  IF longForm > 0
      THEN dest \o canon \o padding(longForm) \o <<0>>
      ELSE dest \o canon

\* encodeVarint(dest, value, longForm): dest with the varint of value
\* appended, longForm bytes longer than canonical when longForm > 0.
encodeVarint(dest, value, longForm) ==
  LET canon == encodeCanonical(value)
      n == Len(canon)
  IN  IF longForm > 0
      THEN dest \o [canon EXCEPT ![n] = Or16(canon[n], 128)]
                \o padding(longForm) \o <<0>>
      ELSE dest \o canon

\* decodeVarint without the limit on the tenth byte.
RECURSIVE decodeVarintUnbounded(_, _, _, _)
decodeVarintUnbounded(src, value, count, extraBytes) ==
  IF Len(src) = 0
  THEN [ok |-> FALSE, rest |-> <<>>, value |-> value, extraBytes |-> extraBytes,
        count |-> count]
  ELSE LET b == Head(src)
           value2 == IF count * 7 < 64
                     THEN U64Or(value, U64Shl(U64(b % 128), count * 7))
                     ELSE value
           extra2 == IF b % 128 = 0 THEN extraBytes + 1 ELSE 0
       IN  IF b < 128
           THEN [ok |-> TRUE, rest |-> Tail(src), value |-> value2,
                 extraBytes |-> IF value2 = U64Zero THEN extra2 - 1 ELSE extra2,
                 count |-> count + 1]
           ELSE decodeVarintUnbounded(Tail(src), value2, count + 1, extra2)

\* The loop of decodeVarint, from the state (src, value, count, extraBytes).
\* A failure returns the named results as they stand, with rest nil.
RECURSIVE decodeVarintLoop(_, _, _, _)
decodeVarintLoop(src, value, count, extraBytes) ==
  IF Len(src) = 0
  THEN [ok |-> FALSE, rest |-> <<>>, value |-> value, extraBytes |-> extraBytes,
        count |-> count]
  ELSE LET b == Head(src)
       IN  IF count = 9 /\ b > 1
           THEN [ok |-> FALSE, rest |-> <<>>, value |-> value,
                 extraBytes |-> extraBytes, count |-> count]
           ELSE LET value2 == U64Or(value, U64Shl(U64(b % 128), count * 7))
                    extra2 == IF b % 128 = 0 THEN extraBytes + 1 ELSE 0
                IN  IF b < 128
                    THEN [ok |-> TRUE, rest |-> Tail(src), value |-> value2,
                          extraBytes |-> IF value2 = U64Zero THEN extra2 - 1 ELSE extra2,
                          count |-> count + 1]
                    ELSE decodeVarintLoop(Tail(src), value2, count + 1, extra2)

\* decodeVarint that counts the one byte of a zero as redundant too.
decodeVarintZeroCounted(src) ==
  IF decodeVarintLoop(src, U64Zero, 0, 0).ok
     /\ decodeVarintLoop(src, U64Zero, 0, 0).value = U64Zero
  THEN [decodeVarintLoop(src, U64Zero, 0, 0) EXCEPT !.extraBytes = @ + 1]
  ELSE decodeVarintLoop(src, U64Zero, 0, 0)

\* decodeVarint(src): (rest, value, extraBytes, ok); count is the number of
\* bytes the loop has read.
decodeVarint(src) == decodeVarintLoop(src, U64Zero, 0, 0)

----------------------------------------------------------------------------
(* The Scanner: positions, tokens and the cursor helpers.                  *)

\* The zero-value Position (File is never set by Exec and is left out).
ZeroPosition == [Offset |-> 0, Line |-> 0, Column |-> 0]

NoError == [kind |-> "none", Pos |-> ZeroPosition, msg |-> ""]

\* &ParseError{pos, errors.New(msg)}
ParseError(pos, msg) == [kind |-> "ParseError", Pos |-> pos, msg |-> msg]

\* fmt.Errorf(msg): an error that is no ParseError and carries no Position.
PlainError(msg) == [kind |-> "error", Pos |-> ZeroPosition, msg |-> msg]

\* token{}: the zero token; Kind 0 is tokenBytes.
ZeroToken ==
  [Kind |-> "tokenBytes", Value |-> <<>>, WireType |-> 0, InferredType |-> FALSE,
   Pos |-> ZeroPosition, Length |-> 0]

\* A nil *token.
NilToken == [Kind |-> "nil"]

SetMax(S) == CHOOSE x \in S : \A y \in S : y <= x

SetMin(S) == CHOOSE x \in S : \A y \in S : x <= y

\* F of the value v: v is worked out once and F uses it under a name.
Let(v, F(_)) == F(v)

\* The byte under the cursor moved n places: s.Input[s.pos.Offset + n].
byteAt(input, pos, n) == input[pos.Offset + n + 1]

\* Scanner.isEOF(n)
isEOF(input, pos, n) == pos.Offset + n >= Len(input)

\* Scanner.advance(n): the cursor n bytes on, never past the end of the
\* input, counting lines and columns.
advance(input, pos, n) ==
  Let(IF pos.Offset + n > Len(input) THEN Len(input) - pos.Offset ELSE n, LAMBDA m :
  Let({i \in (pos.Offset + 1)..(pos.Offset + m) : input[i] = chNewline}, LAMBDA newlines :
    [Offset |-> pos.Offset + m,
     Line |-> pos.Line + Cardinality(newlines),
     Column |-> IF newlines = {} THEN pos.Column + m
                ELSE pos.Offset + m - SetMax(newlines)]))

\* Scanner.consume(n): [ok, text, pos]
consume(input, pos, n) ==
  Let(advance(input, pos, n), LAMBDA after :
    IF after.Offset - pos.Offset # n
    THEN [ok |-> FALSE, text |-> <<>>, pos |-> after]
    ELSE [ok |-> TRUE, text |-> SubSeq(input, pos.Offset + 1, after.Offset),
          pos |-> after])

\* Scanner.consumeUntil(b): [ok, text, pos]
consumeUntil(input, pos, b) ==
  Let({i \in (pos.Offset + 1)..Len(input) : input[i] = b}, LAMBDA found :
    IF found # {}
    THEN Let(SetMin(found) - (pos.Offset + 1), LAMBDA i :
         Let(consume(input, pos, i + 1), LAMBDA c :
           [ok |-> TRUE, text |-> SubSeq(c.text, 1, i), pos |-> c.pos]))
    ELSE [ok |-> FALSE, text |-> <<>>, pos |-> pos])

isDigit(c) == c >= 48 /\ c <= 57

isHexDigit(c) == isDigit(c) \/ (c >= 97 /\ c <= 102) \/ (c >= 65 /\ c <= 70)

\* \w of the regular expressions: [0-9A-Za-z_]
isWord(c) == isDigit(c) \/ (c >= 97 /\ c <= 122) \/ (c >= 65 /\ c <= 90) \/ c = 95

hexValue(c) == IF isDigit(c) THEN c - 48 ELSE IF c >= 97 THEN c - 87 ELSE c - 55

\* hex.DecodeString(text): [ok, bytes]
hexPairs(text) ==
  [k \in 1..(Len(text) \div 2) |->
     (16 * hexValue(text[(2 * k) - 1])) + hexValue(text[2 * k])]

hexDecodeString(text) ==
  IF Len(text) % 2 = 0 /\ \A i \in 1..Len(text) : isHexDigit(text[i])
  THEN [ok |-> TRUE, bytes |-> hexPairs(text)]
  ELSE [ok |-> FALSE, bytes |-> <<>>]

\* The \x case of parseEscapeSequence, pos on the x.
parseEscapeHex(input, pos) ==
  Let(consume(input, advance(input, pos, 1), 2), LAMBDA hexes :
  Let(hexDecodeString(hexes.text), LAMBDA bytes :
    IF ~hexes.ok
    THEN [err |-> ParseError(hexes.pos, "unfinished escape sequence"),
          r |-> 0, pos |-> hexes.pos]
    ELSE IF ~bytes.ok
    THEN [err |-> ParseError(hexes.pos, "encoding/hex: invalid byte"),
          r |-> 0, pos |-> hexes.pos]
    ELSE [err |-> NoError, r |-> bytes.bytes[1], pos |-> hexes.pos]))

\* Scanner.parseEscapeSequence, the cursor on the backslash:
\* [err, r, pos], r the rune escaped.
parseEscapeSequence(input, pos0) ==
  Let(advance(input, pos0, 1), LAMBDA pos :
    IF isEOF(input, pos, 0)
    THEN [err |-> ParseError(pos, "expected escape character"), r |-> 0, pos |-> pos]
    ELSE Let(byteAt(input, pos, 0), LAMBDA c :
           IF c = 110
           THEN [err |-> NoError, r |-> chNewline, pos |-> advance(input, pos, 1)]
           ELSE IF c = chQuote \/ c = chBackslash
           THEN [err |-> NoError, r |-> c, pos |-> advance(input, pos, 1)]
           ELSE IF c = 120
           THEN parseEscapeHex(input, pos)
           ELSE [err |-> ParseError(pos, "unknown escape sequence"), r |-> 0,
                 pos |-> pos]))

\* The loop of parseQuotedString from the cursor pos with bytes collected:
\* [err, tok, pos].
RECURSIVE parseQuotedLoop(_, _, _, _)
parseQuotedLoop(input, start, pos, bytes) ==
  IF isEOF(input, pos, 0)
  THEN [err |-> ParseError(start, "unmatched \""), tok |-> ZeroToken, pos |-> pos]
  ELSE Let(byteAt(input, pos, 0), LAMBDA c :
         IF c = chQuote
         THEN [err |-> NoError,
               tok |-> [ZeroToken EXCEPT !.Value = bytes, !.Pos = start],
               pos |-> advance(input, pos, 1)]
         ELSE IF c = chBackslash
         THEN Let(parseEscapeSequence(input, pos), LAMBDA e :
                IF e.err # NoError
                THEN [err |-> e.err, tok |-> ZeroToken, pos |-> e.pos]
                ELSE IF e.r > 255
                THEN [err |-> ParseError(pos, "illegal escape for quoted string"),
                      tok |-> ZeroToken, pos |-> e.pos]
                ELSE parseQuotedLoop(input, start, e.pos, Append(bytes, e.r)))
         ELSE parseQuotedLoop(input, start, advance(input, pos, 1), Append(bytes, c)))

\* Scanner.parseQuotedString, the cursor on the opening quote.
parseQuotedString(input, pos) ==
  Let(advance(input, pos, 1), LAMBDA start : parseQuotedLoop(input, start, start, <<>>))

----------------------------------------------------------------------------
(* The regular expressions of the scanner and the number parsers.          *)

\* The length of a greedy run from index i of s, stop being the indexes from
\* i on that do not belong to it.
runLength(s, i, stop) == IF stop = {} THEN Len(s) - i + 1 ELSE SetMin(stop) - i

\* How many bytes of s from index i on are digits ([0-9]+, greedy).
digitRun(s, i) == runLength(s, i, {j \in i..Len(s) : ~isDigit(s[j])})

\* How many bytes of s from index i on are hex digits ([0-9a-fA-F]+, greedy).
hexRun(s, i) == runLength(s, i, {j \in i..Len(s) : ~isHexDigit(s[j])})

\* Whether t stands in s at index i.
hasAt(s, i, t) == i + Len(t) - 1 <= Len(s) /\ SubSeq(s, i, i + Len(t) - 1) = t

HasPrefix(s, t) == hasAt(s, 1, t)

\* The one of the texts that stands in s at index i, or the empty text: an
\* optional group like (z|i32|i64)?.
optionalAt(s, i, texts) ==
  Let({e \in texts : hasAt(s, i, e)}, LAMBDA found :
    IF found = {} THEN <<>> ELSE CHOOSE e \in found : TRUE)

\* The tail (z|i32|i64)?(:(\w*))?$ of regexpIntOrTag from index i of s:
\* [ok, m2, m3, m4].
matchSuffix(s, i) ==
  Let(optionalAt(s, i, {B("z"), B("i32"), B("i64")}), LAMBDA m2 :
  Let(i + Len(m2), LAMBDA j :
    IF j > Len(s)
    THEN [ok |-> TRUE, m2 |-> m2, m3 |-> <<>>, m4 |-> <<>>]
    ELSE IF s[j] = 58 /\ \A k \in (j + 1)..Len(s) : isWord(s[k])
    THEN [ok |-> TRUE, m2 |-> m2, m3 |-> SubSeq(s, j, Len(s)),
          m4 |-> SubSeq(s, j + 1, Len(s))]
    ELSE [ok |-> FALSE, m2 |-> <<>>, m3 |-> <<>>, m4 |-> <<>>]))

NoMatch == [ok |-> FALSE, m1 |-> <<>>, m2 |-> <<>>, m3 |-> <<>>, m4 |-> <<>>]

\* A match of regexpIntOrTag: the number and what matchSuffix found after it.
intOrTagMatch(m1, suffix) ==
  [ok |-> TRUE, m1 |-> m1, m2 |-> suffix.m2, m3 |-> suffix.m3, m4 |-> suffix.m4]

\* regexpIntOrTag: ^-?([0-9]+|0x[0-9a-fA-F]+)(z|i32|i64)?(:(\w*))?$
regexpIntOrTag(symbol) ==
  Let(IF HasPrefix(symbol, B("-")) THEN 2 ELSE 1, LAMBDA i :
  Let(digitRun(symbol, i), LAMBDA d :
  Let(matchSuffix(symbol, i + d), LAMBDA dec :
  Let(IF hasAt(symbol, i, B("0x")) THEN hexRun(symbol, i + 2) ELSE 0, LAMBDA h :
  Let(matchSuffix(symbol, i + 2 + h), LAMBDA hex :
    IF d > 0 /\ dec.ok THEN intOrTagMatch(SubSeq(symbol, i, i + d - 1), dec)
    ELSE IF h > 0 /\ hex.ok THEN intOrTagMatch(SubSeq(symbol, i, i + 1 + h), hex)
    ELSE NoMatch)))))

\* The tail (?:[eE]-?[0-9]+)?(i32|i64)?$ of the float expressions from
\* index i of s, the exponent letters being e and E (or p and P): [ok, m1End, m2].
matchFpTail(s, i, letters) ==
  Let(i <= Len(s) /\ s[i] \in letters, LAMBDA exponent :
  Let(IF exponent /\ hasAt(s, i + 1, B("-")) THEN 1 ELSE 0, LAMBDA sign :
  Let(IF exponent THEN digitRun(s, i + 1 + sign) ELSE 0, LAMBDA e :
  Let(IF e > 0 THEN i + 1 + sign + e ELSE i, LAMBDA j :
  Let(optionalAt(s, j, {B("i32"), B("i64")}), LAMBDA m2 :
    [ok |-> j + Len(m2) = Len(s) + 1, m1End |-> j - 1, m2 |-> m2])))))

\* A match of the float expressions, from what matchFpTail found.
fpMatch(symbol, d, f, tail) ==
  IF d > 0 /\ f > 0 /\ tail.ok
  THEN [NoMatch EXCEPT !.ok = TRUE, !.m1 = SubSeq(symbol, 1, tail.m1End),
                       !.m2 = tail.m2]
  ELSE NoMatch

\* regexpDecFp: ^(-?[0-9]+\.[0-9]+(?:[eE]-?[0-9]+)?)(i32|i64)?$
regexpDecFp(symbol) ==
  Let(IF HasPrefix(symbol, B("-")) THEN 2 ELSE 1, LAMBDA i :
  Let(digitRun(symbol, i), LAMBDA d :
  Let(IF hasAt(symbol, i + d, B(".")) THEN digitRun(symbol, i + d + 1) ELSE 0, LAMBDA f :
    fpMatch(symbol, d, f, matchFpTail(symbol, i + d + 1 + f, {101, 69})))))

\* regexpHexFp: ^(-?0x[0-9a-fA-F]+\.[0-9a-fA-F]+(?:[pP]-?[0-9]+)?)(i32|i64)?$
regexpHexFp(symbol) ==
  Let(IF HasPrefix(symbol, B("-")) THEN 2 ELSE 1, LAMBDA i :
  Let(IF hasAt(symbol, i, B("0x")) THEN hexRun(symbol, i + 2) ELSE 0, LAMBDA d :
  Let(IF hasAt(symbol, i + 2 + d, B(".")) THEN hexRun(symbol, i + d + 3) ELSE 0, LAMBDA f :
    fpMatch(symbol, d, f, matchFpTail(symbol, i + d + 3 + f, {112, 80})))))

\* regexpLongForm: ^long-form:([0-9]+)$
regexpLongForm(symbol) ==
  IF HasPrefix(symbol, B("long-form:")) /\ Len(symbol) > 10
     /\ \A j \in 11..Len(symbol) : isDigit(symbol[j])
  THEN [NoMatch EXCEPT !.ok = TRUE, !.m1 = SubSeq(symbol, 11, Len(symbol))]
  ELSE NoMatch

\* The digits of text read in the base from index i on, acc being the value
\* so far: [ok, v]; not ok when a byte is no digit of the base or when the
\* value leaves 64 bits.
RECURSIVE parseUintFrom(_, _, _, _)
parseUintFrom(text, i, base, acc) ==
  IF i > Len(text) THEN [ok |-> TRUE, v |-> acc]
  ELSE IF ~isHexDigit(text[i]) \/ hexValue(text[i]) >= base
  THEN [ok |-> FALSE, v |-> U64Zero]
  ELSE Let(U64MulAdd(acc, base, hexValue(text[i])), LAMBDA r :
         IF r.carry # 0 THEN [ok |-> FALSE, v |-> U64Zero]
         ELSE parseUintFrom(text, i + 1, base, r.v))

\* strconv.ParseInt(text, base, bitSize) for a text without a sign, as the
\* regular expressions hand it over: [ok, v].  It fails on an empty text, on
\* a byte that is no digit of the base, and on a value above 2^(bitSize-1) - 1.
ParseInt(text, base, bitSize) ==
  Let(parseUintFrom(text, 1, base, U64Zero), LAMBDA r :
    IF Len(text) = 0 \/ ~r.ok \/ ~U64Less(r.v, U64Shl(U64(1), bitSize - 1))
    THEN [ok |-> FALSE, v |-> U64Zero]
    ELSE r)

\* binary.LittleEndian.PutUint32(enc, uint32(value))
PutUint32(v) == <<v[1] % 256, v[1] \div 256, v[2] % 256, v[2] \div 256>>

\* binary.LittleEndian.PutUint64(enc, uint64(value))
PutUint64(v) ==
  <<v[1] % 256, v[1] \div 256, v[2] % 256, v[2] \div 256,
    v[3] % 256, v[3] \div 256, v[4] % 256, v[4] \div 256>>

----------------------------------------------------------------------------
(* Floating point.  strconv.ParseFloat and strconv.FormatFloat are library *)
(* code; the model knows them on a table of literals and answers           *)
(* "unmodelled" elsewhere, which stops the run it happens in.              *)

\* text: a decimal literal; bits64: math.Float64bits of ParseFloat(text, 64);
\* bits32: math.Float32bits of that value rounded to float32; exact32:
\* whether the rounding to float32 keeps the value.
FloatTable ==
  { [text |-> B("0.0"), bits64 |-> U64Zero, bits32 |-> U64Zero, exact32 |-> TRUE],
    [text |-> B("-0.0"), bits64 |-> <<0, 0, 0, 32768>>, bits32 |-> <<0, 32768, 0, 0>>,
     exact32 |-> TRUE],
    [text |-> B("1.5"), bits64 |-> <<0, 0, 0, 16376>>, bits32 |-> <<0, 16320, 0, 0>>,
     exact32 |-> TRUE],
    [text |-> B("-1.5"), bits64 |-> <<0, 0, 0, 49144>>, bits32 |-> <<0, 49088, 0, 0>>,
     exact32 |-> TRUE],
    [text |-> B("2.0"), bits64 |-> <<0, 0, 0, 16384>>, bits32 |-> <<0, 16384, 0, 0>>,
     exact32 |-> TRUE],
    [text |-> B("0.1"), bits64 |-> <<39322, 39321, 39321, 16313>>,
     bits32 |-> <<52429, 15820, 0, 0>>, exact32 |-> FALSE],
    [text |-> B("1.0e21"), bits64 |-> <<61264, 55010, 6884, 17483>>,
     bits32 |-> <<55079, 25176, 0, 0>>, exact32 |-> FALSE],
    [text |-> B("1.0e-45"), bits64 |-> <<27321, 44343, 54785, 13974>>,
     bits32 |-> <<1, 0, 0, 0>>, exact32 |-> FALSE] }

\* strconv.ParseFloat(fp, 64): [known, entry]
ParseFloat(fp) ==
  IF \E e \in FloatTable : e.text = fp
  THEN [known |-> TRUE, entry |-> CHOOSE e \in FloatTable : e.text = fp]
  ELSE [known |-> FALSE, entry |-> CHOOSE e \in FloatTable : e.text = B("0.0")]

Unmodelled == [kind |-> "unmodelled", Pos |-> ZeroPosition, msg |-> ""]

----------------------------------------------------------------------------
(* Scanner.next                                                            *)

isSpace(c) == c \in {32, 9, 10, 13}

\* The bytes that end a symbol (the switch at the symbol loop).
isDelimiter(c) == isSpace(c) \/ c \in {123, 125, 91, 93, chBacktick, chQuote, 35}

\* How far the cursor moves to leave the indexes from pos.Offset + 1 on that
\* come before the first index of stop.
blankLength(input, pos, stop) ==
  IF stop = {} THEN Len(input) - pos.Offset ELSE SetMin(stop) - (pos.Offset + 1)

\* The "again" loop of next: the cursor moved over whitespace and comments.
RECURSIVE skipBlank(_, _)
skipBlank(input, pos) ==
  IF isEOF(input, pos, 0) THEN pos
  ELSE IF isSpace(byteAt(input, pos, 0))
  THEN skipBlank(input, advance(input, pos,
         blankLength(input, pos, {j \in (pos.Offset + 1)..Len(input) : ~isSpace(input[j])})))
  ELSE IF byteAt(input, pos, 0) = 35
  THEN skipBlank(input, advance(input, pos,
         1 + blankLength(input, pos, {j \in (pos.Offset + 2)..Len(input) : input[j] = chNewline})))
  ELSE pos

\* What next returns: the token, the error, the cursor it leaves and the
\* caller's lengthModifier as it leaves it.
Lexed(tok, err, pos, lengthModifier) ==
  [tok |-> tok, err |-> err, pos |-> pos, lengthModifier |-> lengthModifier]

\* token{Kind: tokenBytes, ...}
BytesToken(value, wireType, inferredType, pos) ==
  [ZeroToken EXCEPT !.Value = value, !.WireType = wireType,
                    !.InferredType = inferredType, !.Pos = pos]

\* The wire types by number only: every keyword is refused.
tagWireTypeNumbersOnly(m4) ==
  IF m4 = <<>> THEN [ok |-> TRUE, w |-> U64Zero, inferred |-> TRUE]
  ELSE Let(ParseInt(m4, 10, 64), LAMBDA r : [ok |-> r.ok, w |-> r.v, inferred |-> FALSE])

\* The wire type named by match[4] of a tag: [ok, w (a U64), inferred].
tagWireType(m4) ==
  IF m4 = <<>> THEN [ok |-> TRUE, w |-> U64Zero, inferred |-> TRUE]
  ELSE IF m4 = B("VARINT") THEN [ok |-> TRUE, w |-> U64(0), inferred |-> FALSE]
  ELSE IF m4 = B("I64") THEN [ok |-> TRUE, w |-> U64(1), inferred |-> FALSE]
  ELSE IF m4 = B("LEN") THEN [ok |-> TRUE, w |-> U64(2), inferred |-> FALSE]
  ELSE IF m4 = B("SGROUP") THEN [ok |-> TRUE, w |-> U64(3), inferred |-> FALSE]
  ELSE IF m4 = B("EGROUP") THEN [ok |-> TRUE, w |-> U64(4), inferred |-> FALSE]
  ELSE IF m4 = B("I32") THEN [ok |-> TRUE, w |-> U64(5), inferred |-> FALSE]
  ELSE Let(ParseInt(m4, IF HasPrefix(m4, B("0x")) THEN 16 ELSE 10, 64), LAMBDA r :
         [ok |-> r.ok, w |-> r.v, inferred |-> FALSE])

\* The value of an integer or a tag (lines 337-396): [ok, value], not ok when
\* ParseInt fails; wt is the wire type of a tag.
intOrTagValue(symbol, match, wt) ==
  Let(ParseInt(IF HasPrefix(match.m1, B("0x"))
               THEN SubSeq(match.m1, 3, Len(match.m1)) ELSE match.m1,
               IF HasPrefix(symbol, B("0x")) \/ HasPrefix(symbol, B("-0x"))
               THEN 16 ELSE 10, 64), LAMBDA parsed :
  Let(IF HasPrefix(symbol, B("-")) THEN U64Negate(parsed.v) ELSE parsed.v, LAMBDA signed :
    [ok |-> parsed.ok,
     value |-> IF match.m3 # <<>> THEN U64Or(U64Shl(signed, 3), wt.w) ELSE signed]))

\* The encoding of an integer or a tag (lines 397-424), its value parsed.
intOrTagToken(match, value, isTag, wt, start, pos, lengthModifier) ==
  IF isTag /\ match.m2 \in {B("i32"), B("i64")}
  THEN Lexed(ZeroToken,
             ParseError(start, "cannot use fixed-width encoding on tag expressions"),
             pos, lengthModifier)
  ELSE IF isTag /\ ~wt.ok
  THEN Lexed(ZeroToken, ParseError(start, "invalid syntax"), pos, lengthModifier)
  ELSE IF isTag /\ U64Less(U64(7), wt.w)
  THEN Lexed(ZeroToken,
             ParseError(start, "a tag's wire type must be between 0 and 7"),
             pos, lengthModifier)
  ELSE IF match.m2 = B("z") \/ match.m2 = <<>>
  THEN Lexed(BytesToken(
               encodeVarint(<<>>,
                            IF match.m2 = B("z")
                            THEN U64Xor(U64Shl(value, 1), U64Sar63(value)) ELSE value,
                            IF lengthModifier # NilToken THEN lengthModifier.Length ELSE 0),
               0, isTag /\ wt.inferred, pos),
             NoError, pos, NilToken)
  ELSE IF match.m2 = B("i32")
  THEN IF ~I64Less(value, <<0, 0, 1, 0>>) \/ I64Less(value, <<0, 0, 65535, 65535>>)
       THEN Lexed(ZeroToken, ParseError(start, "does not fit in 32 bits"), pos,
                  lengthModifier)
       ELSE Lexed(BytesToken(PutUint32(value), 5, FALSE, pos), NoError, pos,
                  lengthModifier)
  ELSE Lexed(BytesToken(PutUint64(value), 1, FALSE, pos), NoError, pos,
             lengthModifier)

\* The integer-or-tag branch of next (lines 337-426): match is the match of
\* regexpIntOrTag on the symbol, start and pos the cursor before and after it.
nextIntOrTag(symbol, match, start, pos, lengthModifier) ==
  Let(tagWireType(match.m4), LAMBDA wt :
  Let(intOrTagValue(symbol, match, wt), LAMBDA parsed :
    IF ~parsed.ok
    THEN Lexed(ZeroToken, ParseError(start, "value out of range"), pos, lengthModifier)
    ELSE intOrTagToken(match, parsed.value, match.m3 # <<>>, wt, start, pos,
                       lengthModifier)))

\* The floating-point branch of next (lines 433-466).
nextFloat(symbol, match, start, pos, lengthModifier) ==
  Let(ParseFloat(match.m1), LAMBDA f :
    IF ~f.known
    THEN Lexed(ZeroToken, Unmodelled, pos, lengthModifier)
    ELSE IF match.m2 = B("i32")
    THEN IF ~f.entry.exact32
         THEN Lexed(ZeroToken, ParseError(start, "does not fit in 32 bits"), pos,
                    lengthModifier)
         ELSE Lexed(BytesToken(PutUint32(f.entry.bits32), 5, FALSE, pos), NoError, pos,
                    lengthModifier)
    ELSE Lexed(BytesToken(PutUint64(f.entry.bits64), 1, FALSE, pos), NoError, pos,
               lengthModifier))

\* The long-form branch of next (lines 468-474).
nextLongForm(match, start, pos, lengthModifier) ==
  Let(ParseInt(match.m1, 10, 32), LAMBDA l :
    IF ~l.ok
    THEN Lexed(ZeroToken, ParseError(start, "value out of range"), pos, lengthModifier)
    ELSE Lexed([ZeroToken EXCEPT !.Kind = "tokenLongForm", !.Length = U64ToInt(l.v)],
               NoError, pos, lengthModifier))

\* The keywords of next (lines 476-491), and the symbol that is none.
nextKeyword(symbol, pos, lengthModifier) ==
  IF symbol = B("true")
  THEN Lexed(BytesToken(<<1>>, 0, FALSE, pos), NoError, pos, lengthModifier)
  ELSE IF symbol = B("false")
  THEN Lexed(BytesToken(<<0>>, 0, FALSE, pos), NoError, pos, lengthModifier)
  ELSE IF symbol = B("inf32") \/ symbol = B("-inf32")
  THEN Lexed(BytesToken(<<0, 0, 128, 127>>, 5, FALSE, pos), NoError, pos,
             lengthModifier)
  ELSE IF symbol = B("inf64")
  THEN Lexed(BytesToken(<<0, 0, 0, 0, 0, 0, 240, 127>>, 1, FALSE, pos), NoError, pos,
             lengthModifier)
  ELSE IF symbol = B("-inf64")
  THEN Lexed(BytesToken(<<0, 0, 0, 0, 0, 0, 240, 255>>, 1, FALSE, pos), NoError, pos,
             lengthModifier)
  ELSE Lexed(ZeroToken, PlainError("unrecognized symbol"), pos, lengthModifier)

\* The text of the symbol that begins under the cursor (lines 321-335): up
\* to the next delimiter, the first byte whatever it is.
symbolAt(input, start) ==
  Let({j \in (start.Offset + 2)..Len(input) : isDelimiter(input[j])}, LAMBDA stop :
    SubSeq(input, start.Offset + 1, IF stop = {} THEN Len(input) ELSE SetMin(stop) - 1))

\* The symbol branch of next (lines 321-491), the cursor start on the first
\* byte of the symbol.
nextSymbol(input, start, lengthModifier) ==
  Let(symbolAt(input, start), LAMBDA symbol :
  Let(advance(input, start, Len(symbol)), LAMBDA pos :
  Let(regexpIntOrTag(symbol), LAMBDA int :
    IF int.ok THEN nextIntOrTag(symbol, int, start, pos, lengthModifier)
    ELSE Let(regexpDecFp(symbol), LAMBDA dec :
         Let(IF dec.ok THEN dec ELSE regexpHexFp(symbol), LAMBDA fp :
           IF fp.ok THEN nextFloat(symbol, fp, start, pos, lengthModifier)
           ELSE Let(regexpLongForm(symbol), LAMBDA long :
                  IF long.ok THEN nextLongForm(long, start, pos, lengthModifier)
                  ELSE nextKeyword(symbol, pos, lengthModifier)))))))

\* The hex literal of next (lines 308-318), after the cursor past the opening
\* backtick.
nextHexLiteral(input, after, lengthModifier) ==
  Let(consumeUntil(input, after, chBacktick), LAMBDA hexStr :
  Let(hexDecodeString(hexStr.text), LAMBDA bytes :
    IF ~hexStr.ok
    THEN Lexed(ZeroToken, ParseError(after, "unmatched hex literal"), after,
               lengthModifier)
    ELSE IF ~bytes.ok
    THEN Lexed(ZeroToken, ParseError(hexStr.pos, "encoding/hex: invalid byte"),
               hexStr.pos, lengthModifier)
    ELSE Lexed(BytesToken(bytes.bytes, 0, FALSE, hexStr.pos), NoError, hexStr.pos,
               lengthModifier)))

\* Scanner.next(&lengthModifier) with the cursor at pos0.
next(input, pos0, lengthModifier) ==
  Let(skipBlank(input, pos0), LAMBDA pos :
    IF isEOF(input, pos, 0)
    THEN Lexed([ZeroToken EXCEPT !.Kind = "tokenEOF", !.Pos = pos], NoError, pos,
               lengthModifier)
    ELSE Let(byteAt(input, pos, 0), LAMBDA c :
         Let(advance(input, pos, 1), LAMBDA after :
           IF c = 123
           THEN Lexed([ZeroToken EXCEPT !.Kind = "tokenLeftCurly", !.Pos = after],
                      NoError, after, lengthModifier)
           ELSE IF c = 125
           THEN Lexed([ZeroToken EXCEPT !.Kind = "tokenRightCurly", !.Pos = after],
                      NoError, after, lengthModifier)
           ELSE IF c = chQuote
           THEN Let(parseQuotedString(input, pos), LAMBDA quoted :
                  Lexed(quoted.tok, quoted.err, quoted.pos, lengthModifier))
           ELSE IF c = chBacktick
           THEN nextHexLiteral(input, after, lengthModifier)
           ELSE nextSymbol(input, pos, lengthModifier))))

----------------------------------------------------------------------------
(* Scanner.exec: the steps of its loop on one frame.                       *)

\* One call of exec: its locals and its argument.
Frame(leftCurly) ==
  [out |-> <<>>, lengthModifier |-> NilToken, inferredTypeIndex |-> -1,
   leftCurly |-> leftCurly]

\* The patch that forgets where the tag began and ORs into the last byte.
patchLastByte(out, inferredTypeIndex, wireType) ==
  IF inferredTypeIndex # -1
  THEN [out EXCEPT ![Len(out)] = Or16(@, wireType)]
  ELSE out

\* if inferredTypeIndex != -1 { out[inferredTypeIndex] |= byte(wireType) }
patchWireType(out, inferredTypeIndex, wireType) ==
  IF inferredTypeIndex # -1
  THEN [out EXCEPT ![inferredTypeIndex + 1] = Or16(@, wireType)]
  ELSE out

\* The check that lets every token follow a length modifier.
misplacedModifierNever(lengthModifier, tok) == FALSE

\* lengthModifier != nil && token.Kind != tokenLeftCurly
misplacedModifier(lengthModifier, tok) ==
  lengthModifier # NilToken /\ tok.Kind # "tokenLeftCurly"

\* The end of a block that forgets the length modifier.
closeBlockCanonical(out, child, lengthModifier) ==
  encodeVarint(out, U64(Len(child)), 0) \o child

\* The end of the tokenLeftCurly case, the child having returned: the length
\* prefix with the pending length modifier applied, then the child's bytes.
closeBlock(out, child, lengthModifier) ==
  LET lengthOverride ==
        IF lengthModifier # NilToken /\ lengthModifier.Kind = "tokenLongForm"
        THEN lengthModifier.Length ELSE 0
  IN  encodeVarint(out, U64(Len(child)), lengthOverride) \o child

----------------------------------------------------------------------------
(* internal/print: the Printer under the writer.  A writer w is a record   *)
(* of the Printer's lines and blocks, the writer's groups and descs, and   *)
(* the panic that stopped it, if any.  Indexes into lines are those of the *)
(* code plus one.                                                          *)

\* Write sets w.Indent = 2 and w.MaxFolds = 3.
Indent == 2

MaxFolds == 3

\* Line{}
EmptyLine == [text |-> <<>>, remarks |-> <<>>, indent |-> 0, folds |-> 0]

\* writer{WriterOptions: opts} with descs as Write leaves them.
NewWriter(descs) ==
  [lines |-> <<>>, blocks |-> <<>>, groups |-> <<>>, descs |-> descs,
   panic |-> "", unmodelled |-> FALSE]

\* A panic of the run time or of the code: the first one is kept.
Panics(w, msg) == IF w.panic # "" THEN w ELSE [w EXCEPT !.panic = msg]

\* utf8.RuneCount of a text that is valid UTF-8: the bytes that begin a rune.
RuneCount(text) == Cardinality({i \in 1..Len(text) : text[i] < 128 \/ text[i] >= 192})

\* b repeated n times, nothing when n <= 0.
Spaces(n) == [i \in 1..n |-> 32]

\* Printer.NewLine
NewLine(w) == [w EXCEPT !.lines = Append(@, EmptyLine)]

\* Printer.DiscardLine: lines.Pop()
DiscardLine(w) ==
  IF w.lines = <<>> THEN Panics(w, "index out of range")
  ELSE [w EXCEPT !.lines = SubSeq(@, 1, Len(@) - 1)]

\* Printer.Mark
Mark(w) == Len(w.lines)

\* Reset that discards no line.
ResetKeepsLines(w, m) ==
  IF m > Len(w.lines) THEN Panics(w, "slice bounds out of range")
  ELSE w

\* Printer.Reset(m): p.lines = p.lines[:m]
Reset(w, m) ==
  IF m > Len(w.lines) THEN Panics(w, "slice bounds out of range")
  ELSE [w EXCEPT !.lines = SubSeq(@, 1, m)]

\* Printer.Write and Printer.Writef, text being what fmt makes of the
\* arguments; Current() is Prev(0), which indexes PeekN(1).
Writef(w, text) ==
  IF w.lines = <<>> THEN Panics(w, "index out of range")
  ELSE [w EXCEPT !.lines[Len(w.lines)].text = @ \o text]

\* Printer.Remark and Printer.Remarkf
Remark(w, text) ==
  IF w.lines = <<>> THEN Panics(w, "index out of range")
  ELSE [w EXCEPT !.lines[Len(w.lines)].remarks = Append(@, text)]

\* print.BlockInfo{HasDelimiters, HeightToFoldAt, UnindentAt}
BlockInfo(hasDelimiters, heightToFoldAt, unindentAt) ==
  [HasDelimiters |-> hasDelimiters, HeightToFoldAt |-> heightToFoldAt,
   UnindentAt |-> unindentAt, start |-> 0]

\* Printer.StartBlock
StartBlock(w, bi) ==
  IF w.lines = <<>> THEN Panics(w, "index out of range")
  ELSE IF w.lines[Len(w.lines)].indent # 0
  THEN Panics(w, "called StartBlock() too many times; this is a bug")
  ELSE [w EXCEPT !.blocks = Append(@, [bi EXCEPT !.start = Len(w.lines)]),
                 !.lines[Len(w.lines)].indent = @ + 1]

\* DropBlock that leaves the indentation of the block.
DropBlockIndented(w) ==
  IF w.blocks = <<>> THEN Panics(w, "index out of range")
  ELSE [w EXCEPT !.blocks = SubSeq(@, 1, Len(@) - 1)]

\* Printer.DropBlock; the line it returns is line w.blocks[Len(w.blocks)].start
\* of the writer it is given.
DropBlock(w) ==
  IF w.blocks = <<>> THEN Panics(w, "index out of range")
  ELSE IF w.blocks[Len(w.blocks)].start > Len(w.lines)
  THEN Panics(w, "index out of range")
  ELSE [w EXCEPT !.blocks = SubSeq(@, 1, Len(@) - 1),
                 !.lines[w.blocks[Len(w.blocks)].start].indent = @ - 1]

\* The text EndBlock folds onto the start line: the lines from index k on,
\* line k being number i of the loop (lines 295-300).
RECURSIVE foldedText(_, _, _, _, _)
foldedText(lines, k, i, height, hasDelimiters) ==
  IF k > Len(lines) THEN <<>>
  ELSE (IF (i # 0 /\ i # height - 2) \/ ~hasDelimiters THEN <<32>> ELSE <<>>)
       \o lines[k].text
       \o foldedText(lines, k + 1, i + 1, height, hasDelimiters)

\* The sum of the folds of the lines from index k on.
RECURSIVE sumFolds(_, _)
sumFolds(lines, k) ==
  IF k > Len(lines) THEN 0 ELSE lines[k].folds + sumFolds(lines, k + 1)

\* The fold without line 303: the start line keeps its own remarks.
foldedRemarksOfStart(lines, start) == lines[start].remarks

\* The remarks the start line has after a fold: those of the last line after
\* it that has any, its own when there is none.
foldedRemarks(lines, start) ==
  Let({k \in (start + 1)..Len(lines) : lines[k].remarks # <<>>}, LAMBDA with :
    IF with = {} THEN lines[start].remarks ELSE lines[SetMax(with)].remarks)

\* The folding of EndBlock (lines 258-308), the block bi popped.
endBlockFold(w, bi) ==
  Let(Len(w.lines) - bi.start + 1, LAMBDA height :
    IF height > bi.HeightToFoldAt \/ height < 2 THEN w
    ELSE Let(sumFolds(w.lines, bi.start), LAMBDA folds :
           IF folds > MaxFolds THEN w
           ELSE IF Cardinality({k \in bi.start..Len(w.lines) :
                                  w.lines[k].remarks # <<>>}) > 1
           THEN w
           ELSE [w EXCEPT !.lines =
                   Append(SubSeq(w.lines, 1, bi.start - 1),
                          [text |-> w.lines[bi.start].text
                                      \o foldedText(w.lines, bi.start + 1, 0, height,
                                                    bi.HasDelimiters),
                           remarks |-> foldedRemarks(w.lines, bi.start),
                           indent |-> w.lines[bi.start].indent,
                           folds |-> folds])]))

\* The deferred function of EndBlock (lines 262-269).
endBlockUnindent(w, bi) ==
  IF Len(w.lines) - bi.start + 1 <= bi.UnindentAt
  THEN [w EXCEPT !.lines[bi.start].indent = @ - 1]
  ELSE [w EXCEPT !.lines[Len(w.lines) - bi.UnindentAt].indent = @ - 1]

\* Printer.EndBlock
EndBlock(w) ==
  IF w.blocks = <<>> THEN Panics(w, "index out of range")
  ELSE IF w.blocks[Len(w.blocks)].start > Len(w.lines)
  THEN Panics(w, "index out of range")
  ELSE endBlockUnindent(
         endBlockFold([w EXCEPT !.blocks = SubSeq(@, 1, Len(@) - 1)],
                      w.blocks[Len(w.blocks)]),
         w.blocks[Len(w.blocks)])

\* Widths that are the same for every column: the widest of the lines.
columnWidthsWidest(toFold, cols, end) ==
  [c \in 0..(cols - 1) |->
     SetMax({0} \cup {RuneCount(toFold[i + 1].text) : i \in 0..(end - 1)})]

\* The widths of FoldIntoColumns (lines 322-333): for each column the widest
\* of the first end lines of toFold that fall into it.
columnWidths(toFold, cols, end) ==
  [c \in 0..(cols - 1) |->
     SetMax({0} \cup {RuneCount(toFold[i + 1].text) :
                        i \in {x \in 0..(end - 1) : x % cols = c}})]

\* The loop of lines 338-354 from entry i on: the entries of toFold before
\* end written out in columns.
RECURSIVE foldEntries(_, _, _, _, _, _)
foldEntries(w, toFold, cols, widths, i, end) ==
  IF i >= end THEN w
  ELSE Let(toFold[i + 1], LAMBDA line :
       Let(Writef(IF i % cols = 0 THEN NewLine(w) ELSE Writef(w, <<32>>),
                  Spaces(widths[i % cols] - RuneCount(line.text)) \o line.text),
           LAMBDA written :
         foldEntries(IF line.remarks # <<>> /\ written.lines # <<>>
                     THEN [written EXCEPT !.lines[Len(written.lines)].remarks =
                             line.remarks]
                     ELSE written,
                     toFold, cols, widths, i + 1, end)))

\* The outer loop of FoldIntoColumns (lines 316-357).
RECURSIVE foldRuns(_, _, _)
foldRuns(w, toFold, cols) ==
  IF toFold = <<>> THEN w
  ELSE Let({i \in 1..Len(toFold) : toFold[i].remarks # <<>>}, LAMBDA with :
       Let(IF with = {} THEN Len(toFold) ELSE SetMin(with) - 1, LAMBDA seen :
       Let(IF seen = 0 THEN 1 ELSE seen, LAMBDA end :
         foldRuns(foldEntries(w, toFold, cols, columnWidths(toFold, cols, seen), 0, end),
                  SubSeq(toFold, end + 1, Len(toFold)), cols))))

\* Printer.FoldIntoColumns(cols, count)
FoldIntoColumns(w, cols, count) ==
  IF count > Len(w.lines) THEN Panics(w, "slice bounds out of range")
  ELSE foldRuns([w EXCEPT !.lines = SubSeq(@, 1, Len(@) - count)],
                SubSeq(w.lines, Len(w.lines) - count + 1, Len(w.lines)), cols)

\* The inner loop of Finish (lines 169-184) at its round j, i being the index
\* of the outer loop as the code counts it: [col, till], the new commentCol
\* and commentColUntil.
RECURSIVE commentColumn(_, _, _, _, _, _)
commentColumn(lines, i, j, indent2, col, till) ==
  IF i + j + 1 > Len(lines) THEN [col |-> col, till |-> till]
  ELSE IF lines[i + j + 1].remarks = <<>> THEN [col |-> col, till |-> j + i]
  ELSE Let(indent2 * Indent + RuneCount(lines[i + j + 1].text), LAMBDA lineLen :
         IF lineLen > col /\ j > 1 /\ lines[i + j + 1].indent # 0
         THEN [col |-> col, till |-> j + i]
         ELSE commentColumn(lines, i, j + 1, indent2 + lines[i + j + 1].indent,
                            IF lineLen > col THEN lineLen ELSE col, till))

\* commentCol rounded up to a multiple of Indent (lines 185-187).
roundedColumn(c) ==
  [col |-> IF c.col % Indent # 0 THEN c.col + Indent - (c.col % Indent) ELSE c.col,
   till |-> c.till]

\* The remarks of a line joined by ", ".
RECURSIVE joinRemarks(_, _)
joinRemarks(remarks, k) ==
  IF k > Len(remarks) THEN <<>>
  ELSE (IF k # 1 THEN <<44, 32>> ELSE <<>>) \o remarks[k] \o joinRemarks(remarks, k + 1)

\* What Finish writes for one line (lines 190-211) at the indent and the
\* commentCol it has reached.
finishLine(line, indent, commentCol) ==
  Spaces(indent * Indent) \o line.text
  \o (IF line.remarks # <<>>
      THEN Spaces(commentCol - (indent * Indent) - Len(line.text))
           \o <<32, 32, 35, 32>> \o joinRemarks(line.remarks, 1)
      ELSE <<>>)
  \o <<chNewline>>

\* The loop of Finish from line i on, as the code counts them.
RECURSIVE finishLines(_, _, _, _)
finishLines(lines, i, indent, c) ==
  IF i + 1 > Len(lines) THEN <<>>
  ELSE Let(IF lines[i + 1].remarks # <<>> /\ c.till < i
           THEN roundedColumn(commentColumn(lines, i, 0, indent, -1, c.till))
           ELSE c, LAMBDA d :
         finishLine(lines[i + 1], indent, d.col)
         \o finishLines(lines, i + 1, indent + lines[i + 1].indent, d))

\* Printer.Finish: [panic, out]
Finish(w) ==
  IF w.blocks # <<>>
  THEN [panic |-> "called Finish() without closing all blocks", out |-> <<>>]
  ELSE [panic |-> w.panic, out |-> finishLines(w.lines, 0, 0, [col |-> -1, till |-> -1])]

----------------------------------------------------------------------------
(* Formatting of numbers as fmt and strconv do it.                         *)

\* The decimal digits of an unsigned word: %d of a uint64.
RECURSIVE FormatUint(_)
FormatUint(v) ==
  Let(U64DivMod(v, 10), LAMBDA d :
    IF d.q = U64Zero THEN <<48 + d.r>> ELSE Append(FormatUint(d.q), 48 + d.r))

\* %d of an int64(v)
FormatInt(v) ==
  IF v[4] >= 32768 THEN <<45>> \o FormatUint(U64Negate(v)) ELSE FormatUint(v)

\* One hex digit, lower case.
hexDigit(n) == IF n < 10 THEN 48 + n ELSE 87 + n

\* %x of an unsigned word: lower case, no leading zeros.
RECURSIVE FormatHex(_)
FormatHex(v) ==
  Let(U64DivMod(v, 16), LAMBDA d :
    IF d.q = U64Zero THEN <<hexDigit(d.r)>> ELSE Append(FormatHex(d.q), hexDigit(d.r)))

\* %02x of a byte
FormatByte(b) == <<hexDigit(b \div 16), hexDigit(b % 16)>>

\* int64(int32(v)) of a word below 2^32, as a word.
SignExtend32(v) == IF v[2] >= 32768 THEN <<v[1], v[2], 65535, 65535>> ELSE v

\* binary.LittleEndian.Uint32(src) and Uint64(src)
Uint32(src) == <<src[1] + (256 * src[2]), src[3] + (256 * src[4]), 0, 0>>

Uint64(src) ==
  <<src[1] + (256 * src[2]), src[3] + (256 * src[4]),
    src[5] + (256 * src[6]), src[7] + (256 * src[8])>>

----------------------------------------------------------------------------
(* The schema.  A message descriptor is a name, NilDesc when there is      *)
(* none; its fields are records of what the writer asks a FieldDescriptor: *)
(* Name(), Kind(), Message() and, through EnumNames, Enum().Values().      *)

NilDesc == "nil"

\* A nil protoreflect.FieldDescriptor.
NilFd == [number |-> 0, name |-> <<>>, kind |-> "none", message |-> NilDesc]

FieldDesc(number, name, kind, message) ==
  [number |-> number, name |-> B(name), kind |-> kind, message |-> message]

\* unittest.TestAllTypes of the test data, as far as the inputs reach into
\* it, with its nested messages and its group.
Fields(desc) ==
  IF desc = "TestAllTypes"
  THEN { FieldDesc(1, "optional_int32", "Int32Kind", NilDesc),
         FieldDesc(4, "optional_uint64", "Uint64Kind", NilDesc),
         FieldDesc(5, "optional_sint32", "Sint32Kind", NilDesc),
         FieldDesc(7, "optional_fixed32", "Fixed32Kind", NilDesc),
         FieldDesc(10, "optional_sfixed64", "Sfixed64Kind", NilDesc),
         FieldDesc(11, "optional_float", "FloatKind", NilDesc),
         FieldDesc(12, "optional_double", "DoubleKind", NilDesc),
         FieldDesc(13, "optional_bool", "BoolKind", NilDesc),
         FieldDesc(14, "optional_string", "StringKind", NilDesc),
         FieldDesc(15, "optional_bytes", "BytesKind", NilDesc),
         FieldDesc(16, "optionalgroup", "GroupKind", "OptionalGroup"),
         FieldDesc(18, "optional_nested_message", "MessageKind", "NestedMessage"),
         FieldDesc(21, "optional_nested_enum", "EnumKind", NilDesc) }
  ELSE IF desc = "OptionalGroup"
  THEN { FieldDesc(17, "a", "Int32Kind", NilDesc) }
  ELSE IF desc = "NestedMessage"
  THEN { FieldDesc(1, "bb", "Int32Kind", NilDesc) }
  ELSE {}

\* TestAllTypes.NestedEnum: the names of its values below math.MaxInt32.
EnumNames == { [number |-> 1, name |-> B("FOO")], [number |-> 2, name |-> B("BAR")],
               [number |-> 3, name |-> B("BAZ")] }

\* ed.ByNumber(protoreflect.EnumNumber(value)) for a value below
\* math.MaxInt32: the name, empty when there is no such value.
enumName(value) ==
  Let({e \in EnumNames : U64(e.number) = value}, LAMBDA found :
    IF found = {} THEN <<>> ELSE (CHOOSE e \in found : TRUE).name)

\* (*d).Fields().ByNumber(protowire.Number(number)): the number is cut to
\* an int32, and the numbers of the fields are positive.
ByNumber(desc, number) ==
  Let({f \in Fields(desc) : number[2] < 32768 /\ f.number = number[1] + (65536 * number[2])},
      LAMBDA found : IF found = {} THEN NilFd ELSE CHOOSE f \in found : TRUE)

\* The descriptor of the field with the number, from the top of w.descs
\* (lines 295-298).
fieldDescriptor(w, number) ==
  IF w.descs = <<>> THEN NilFd
  ELSE IF w.descs[Len(w.descs)] = NilDesc THEN NilFd
  ELSE ByNumber(w.descs[Len(w.descs)], number)

----------------------------------------------------------------------------
(* Floating point in the writer.  strconv.FormatFloat is library code: the *)
(* model knows it on a table of values and marks the writer "unmodelled"   *)
(* elsewhere.                                                              *)

\* bits: the value's bits; bitLen: 32 or 64;
\* text: strconv.FormatFloat(value, 'g', -1, bitLen)
FormatFloatTable ==
  { [bits |-> <<0, 16320, 0, 0>>, bitLen |-> 32, text |-> B("1.5")],
    [bits |-> <<0, 49088, 0, 0>>, bitLen |-> 32, text |-> B("-1.5")],
    [bits |-> <<0, 16384, 0, 0>>, bitLen |-> 32, text |-> B("2")],
    [bits |-> <<52429, 15820, 0, 0>>, bitLen |-> 32, text |-> B("0.1")],
    [bits |-> <<1, 0, 0, 0>>, bitLen |-> 32, text |-> B("1e-45")],
    [bits |-> <<0, 0, 0, 16376>>, bitLen |-> 64, text |-> B("1.5")],
    [bits |-> <<0, 0, 0, 49144>>, bitLen |-> 64, text |-> B("-1.5")],
    [bits |-> <<0, 0, 0, 16384>>, bitLen |-> 64, text |-> B("2")],
    [bits |-> <<39322, 39321, 39321, 16313>>, bitLen |-> 64, text |-> B("0.1")],
    [bits |-> <<61264, 55010, 6884, 17483>>, bitLen |-> 64, text |-> B("1e+21")] }

\* strconv.FormatFloat(value, 'g', -1, bitLen): [known, text]
FormatFloat(bits, bitLen) ==
  Let({e \in FormatFloatTable : e.bits = bits /\ e.bitLen = bitLen}, LAMBDA found :
    IF found = {} THEN [known |-> FALSE, text |-> <<>>]
    ELSE [known |-> TRUE, text |-> (CHOOSE e \in found : TRUE).text])

\* strings.Replace(s, old, new, -1) for a one-byte old.
RECURSIVE Replace(_, _, _)
Replace(s, old, new) ==
  IF s = <<>> THEN <<>>
  ELSE (IF s[1] = old THEN new ELSE <<s[1]>>) \o Replace(SubSeq(s, 2, Len(s)), old, new)

Contains(s, c) == \E i \in 1..Len(s) : s[i] = c

\* Lines 616-628 of ftoa: the + of the exponent dropped, a decimal point put
\* in when there is none.
withDecimalPoint(decimal) ==
  Let(Replace(decimal, 43, <<>>), LAMBDA d :
    IF Contains(d, 46) THEN d
    ELSE IF Contains(d, 101) THEN Replace(d, 101, B(".0e"))
    ELSE d \o B(".0"))

\* The exponent field of the bits less the bias (lines 586-587).
floatExp(bits, bitLen) ==
  IF bitLen = 32 THEN ((bits[2] \div 128) % 256) - 127
  ELSE ((bits[4] \div 16) % 2048) - 1023

\* ftoa(bits, floatForSure): [known, s]; s is empty when the bits are taken
\* for no float; the decimal always parses back to the bits, so the 'x'
\* format of line 613 is never used.
ftoa(bits, bitLen, floatForSure) ==
  IF bits = U64Zero THEN [known |-> TRUE, s |-> B("0.0")]
  ELSE IF bits = U64Shl(U64(1), bitLen - 1) THEN [known |-> TRUE, s |-> B("-0.0")]
  ELSE Let(floatExp(bits, bitLen), LAMBDA exp :
       IF (IF exp < 0 THEN -exp ELSE exp) >= (IF bitLen = 32 THEN 127 ELSE 1023)
          /\ ~floatForSure
       THEN [known |-> TRUE, s |-> <<>>]
       ELSE Let(FormatFloat(bits, bitLen), LAMBDA decimal :
              [known |-> decimal.known, s |-> withDecimalPoint(decimal.text)]))

\* math.IsInf(fvalue, 0) and math.IsNaN(fvalue) on the bits.
isInfOrNaN(bits, bitLen) ==
  IF bitLen = 32 THEN (bits[2] \div 128) % 256 = 255 ELSE (bits[4] \div 16) % 2048 = 2047

isNaN(bits, bitLen) ==
  /\ isInfOrNaN(bits, bitLen)
  /\ IF bitLen = 32 THEN bits[1] # 0 \/ bits[2] % 128 # 0
     ELSE bits[1] # 0 \/ bits[2] # 0 \/ bits[3] # 0 \/ bits[4] % 16 # 0

isNegative(bits, bitLen) == IF bitLen = 32 THEN bits[2] >= 32768 ELSE bits[4] >= 32768

----------------------------------------------------------------------------
(* UTF-8 and unicode, as far as the writer asks.                           *)

isCont(p, i) == i <= Len(p) /\ p[i] >= 128 /\ p[i] <= 191

\* The length of the well-formed rune at index i of p, 0 when there is none.
runeLen(p, i) ==
  Let(p[i], LAMBDA c :
    IF c < 128 THEN 1
    ELSE IF c >= 194 /\ c <= 223 THEN (IF isCont(p, i + 1) THEN 2 ELSE 0)
    ELSE IF c >= 224 /\ c <= 239
    THEN (IF isCont(p, i + 1) /\ isCont(p, i + 2)
             /\ (c = 224 => p[i + 1] >= 160) /\ (c = 237 => p[i + 1] <= 159)
          THEN 3 ELSE 0)
    ELSE IF c >= 240 /\ c <= 244
    THEN (IF isCont(p, i + 1) /\ isCont(p, i + 2) /\ isCont(p, i + 3)
             /\ (c = 240 => p[i + 1] >= 144) /\ (c = 244 => p[i + 1] <= 143)
          THEN 4 ELSE 0)
    ELSE 0)

\* utf8.Valid(p[i:])
RECURSIVE utf8Valid(_, _)
utf8Valid(p, i) ==
  IF i > Len(p) THEN TRUE
  ELSE Let(runeLen(p, i), LAMBDA n : n > 0 /\ utf8Valid(p, i + n))

\* The rune at index i of a valid text, when it has one or two bytes; runes
\* of more bytes are beyond the model (-1).
runeAt(p, i) ==
  IF p[i] < 128 THEN p[i]
  ELSE IF p[i] <= 223 THEN ((p[i] - 192) * 64) + (p[i + 1] - 128)
  ELSE -1

\* unicode.IsGraphic(r) for r <= unicode.MaxLatin1, from the properties
\* table of the package.
IsGraphic(r) == (r >= 32 /\ r <= 126) \/ (r >= 160 /\ r <= 255 /\ r # 173)

\* The indexes of a valid text at which a rune begins.
runeStarts(p) == {i \in 1..Len(p) : p[i] < 128 \/ p[i] >= 192}

----------------------------------------------------------------------------
(* writer.go: the disassembler.  opts is the WriterOptions of the writer;  *)
(* a decoder gives [w, rest, ok], w being the writer as it leaves it.      *)

Decoded(w, rest, ok) == [w |-> w, rest |-> rest, ok |-> ok]

\* if extra > 0 { w.Writef("long-form:%d ", extra) }
longForm(w, extra) ==
  IF extra > 0 THEN Writef(w, B("long-form:") \o FormatUint(U64(extra)) \o <<32>>) ELSE w

\* The k-th literal of dumpHexString: the bytes of src from 40 (k - 1) on, 40
\* of them at most, each as %02x, between backticks (lines 113-122).
hexRow(src, k) ==
  Let(SubSeq(src, (40 * (k - 1)) + 1, SetMin({40 * k, Len(src)})), LAMBDA row :
    <<chBacktick>>
    \o [j \in 1..(2 * Len(row)) |-> FormatByte(row[(j + 1) \div 2])[2 - (j % 2)]]
    \o <<chBacktick>>)

\* writer.dumpHexString(src): nothing for no bytes, else a new line for every
\* 40 bytes begun.
dumpHexString(w, src) ==
  IF src = <<>> THEN w
  ELSE [w EXCEPT !.lines =
          @ \o [k \in 1..((Len(src) + 39) \div 40) |->
                 [EmptyLine EXCEPT !.text = hexRow(src, k)]]]

\* resetGroup that leaves the block of the group open.
resetGroupKeepBlock(w, opts) ==
  IF w.blocks = <<>> THEN Panics(w, "index out of range")
  ELSE Let(w.blocks[Len(w.blocks)].start, LAMBDA start :
         IF opts.NoGroups THEN w
         ELSE IF Len(w.lines[start].text) < 3
         THEN Panics(w, "bytes.Buffer: truncation out of range")
         ELSE [w EXCEPT !.lines[start].text = SubSeq(@, 1, Len(@) - 3) \o B("SGROUP")])

\* writer.resetGroup
resetGroup(w, opts) ==
  IF w.blocks = <<>> THEN Panics(w, "index out of range")
  ELSE Let(w.blocks[Len(w.blocks)].start, LAMBDA start :
       Let(DropBlock(w), LAMBDA d :
         IF opts.NoGroups \/ start > Len(d.lines) THEN d
         ELSE IF Len(d.lines[start].text) < 3
         THEN Panics(d, "bytes.Buffer: truncation out of range")
         ELSE [d EXCEPT !.lines[start].text = SubSeq(@, 1, Len(@) - 3) \o B("SGROUP")]))

\* for range w.groups { w.resetGroup() }, n groups to go.
RECURSIVE resetGroups(_, _, _)
resetGroups(w, opts, n) ==
  IF n = 0 THEN w ELSE resetGroups(resetGroup(w, opts), opts, n - 1)

\* The enum name remarked by decodeVarint and printFixed (lines 174-180).
remarkEnum(w, opts, value) ==
  IF opts.PrintEnumNames /\ U64Less(value, <<65535, 32767, 0, 0>>) /\ enumName(value) # <<>>
  THEN Remark(w, enumName(value))
  ELSE w

\* The switch of writer.decodeVarint (lines 147-184) on a value decoded.
printVarint(w, opts, value, kind) ==
  IF kind = "BoolKind" /\ value = U64Zero THEN Writef(w, B("false"))
  ELSE IF kind = "BoolKind" /\ value = U64(1) THEN Writef(w, B("true"))
  ELSE IF kind \in {"BoolKind", "Uint32Kind", "Uint64Kind", "Fixed32Kind", "Fixed64Kind"}
  THEN Writef(w, FormatUint(value))
  ELSE IF kind \in {"Sint32Kind", "Sint64Kind"}
  THEN Writef(w, FormatInt(U64Xor(U64Shr(value, 1), U64Negate(U64And(value, U64(1)))))
                 \o B("z"))
  ELSE IF kind = "EnumKind"
  THEN Writef(remarkEnum(w, opts, value), FormatInt(value))
  ELSE Writef(w, FormatInt(value))

\* writer.decodeVarint(src, fd)
writerDecodeVarint(w, opts, src, fd) ==
  Let(decodeVarint(src), LAMBDA d :
    IF ~d.ok THEN Decoded(w, <<>>, FALSE)
    ELSE Decoded(printVarint(longForm(w, d.extraBytes), opts, d.value,
                             IF fd # NilFd THEN fd.kind ELSE "Int64Kind"),
                 d.rest, TRUE))

\* %di%s of the value as the signed type I has it.
signedFixed(value, bitLen) ==
  FormatInt(IF bitLen = 32 THEN SignExtend32(value) ELSE value)

\* The suffix of a fixed-width literal: "i32" or "i64".
fixedSuffix(bitLen) == IF bitLen = 32 THEN B("i32") ELSE B("i64")

\* The default case of printFixed (lines 230-251): the value as a float.
printFloat(w, value, bitLen, floatForSure) ==
  IF isNaN(value, bitLen)
  THEN Writef(w, B("0x") \o FormatHex(value) \o fixedSuffix(bitLen))
  ELSE IF isInfOrNaN(value, bitLen)
  THEN Writef(w, (IF isNegative(value, bitLen) THEN B("-inf") ELSE B("inf"))
                 \o (IF bitLen = 32 THEN B("32") ELSE B("64")))
  ELSE Let(ftoa(value, bitLen, floatForSure), LAMBDA s :
         IF ~s.known THEN [w EXCEPT !.unmodelled = TRUE]
         ELSE IF s.s = <<>> THEN Writef(w, signedFixed(value, bitLen) \o fixedSuffix(bitLen))
         ELSE Remark(Writef(w, IF bitLen = 64 THEN s.s ELSE s.s \o B("i32")),
                     B("0x") \o FormatHex(value) \o fixedSuffix(bitLen)))

\* printFixed(w, value, suffix, itof, src, fd), what it writes.
printFixed(w, opts, value, bitLen, kind) ==
  IF kind \in {"Uint32Kind", "Uint64Kind", "Fixed32Kind", "Fixed64Kind"}
  THEN Writef(w, FormatUint(value) \o fixedSuffix(bitLen))
  ELSE IF kind = "EnumKind"
  THEN Writef(remarkEnum(w, opts, value), signedFixed(value, bitLen) \o fixedSuffix(bitLen))
  ELSE IF kind \in {"Int32Kind", "Int64Kind", "Sint32Kind", "Sint64Kind",
                    "Sfixed32Kind", "Sfixed64Kind", "BoolKind"}
  THEN Writef(w, signedFixed(value, bitLen) \o fixedSuffix(bitLen))
  ELSE printFloat(w, value, bitLen, kind \in {"DoubleKind", "FloatKind"})

\* writer.decodeI32(src, fd)
decodeI32(w, opts, src, fd) ==
  IF Len(src) < 4 THEN Decoded(w, <<>>, FALSE)
  ELSE Decoded(printFixed(w, opts, Uint32(src), 32, fd.kind), SubSeq(src, 5, Len(src)), TRUE)

\* writer.decodeI64(src, fd)
decodeI64(w, opts, src, fd) ==
  IF Len(src) < 8 THEN Decoded(w, <<>>, FALSE)
  ELSE Decoded(printFixed(w, opts, Uint64(src), 64, fd.kind), SubSeq(src, 9, Len(src)), TRUE)

\* The decoder decodePacked is given, by the wire type it reads.
decodeScalar(w, opts, src, fd, wire) ==
  IF wire = 0 THEN writerDecodeVarint(w, opts, src, fd)
  ELSE IF wire = 5 THEN decodeI32(w, opts, src, fd)
  ELSE decodeI64(w, opts, src, fd)

\* The loop of decodePacked (lines 425-433): [w, delimited, count]
RECURSIVE packedLoop(_, _, _, _, _, _)
packedLoop(w, opts, delimited, fd, wire, count) ==
  Let(decodeScalar(NewLine(w), opts, delimited, fd, wire), LAMBDA d :
    IF ~d.ok THEN [w |-> DiscardLine(d.w), delimited |-> delimited, count |-> count]
    ELSE packedLoop(d.w, opts, d.rest, fd, wire, count + 1))

\* decodePacked(decode): [w, delimited]
decodePacked(w, opts, delimited, fd, wire) ==
  Let(packedLoop(w, opts, delimited, fd, wire, 0), LAMBDA p :
    [w |-> FoldIntoColumns(p.w, 8, p.count), delimited |-> p.delimited])

\* What lines 527-544 write for the rune at index i of s.
quotedRune(w, s, i) ==
  IF s[i] = chNewline THEN Writef(w, <<chBackslash, 110>>)
  ELSE IF s[i] = chBackslash THEN Writef(w, <<chBackslash, chBackslash>>)
  ELSE IF s[i] = chQuote THEN Writef(w, <<chBackslash, chQuote>>)
  ELSE IF IsGraphic(runeAt(s, i)) THEN Writef(w, SubSeq(s, i, i + runeLen(s, i) - 1))
  ELSE IF s[i] < 128 THEN Writef(w, <<chBackslash, 120>> \o FormatByte(s[i]))
  ELSE Writef(w, <<chBackslash, 120>> \o FormatByte(s[i])
                 \o <<chBackslash, 120>> \o FormatByte(s[i + 1]))

\* The loop of lines 520-545 from index i of s on.
RECURSIVE quotedRunes(_, _, _)
quotedRunes(w, s, i) ==
  IF i > Len(s) THEN w
  ELSE quotedRunes(
         quotedRune(IF i # 1 /\ (i - 1) % 80 = 0
                    THEN Writef(NewLine(Writef(w, <<chQuote>>)), <<chQuote>>)
                    ELSE w,
                    s, i),
         s, i + runeLen(s, i))

\* Whether more than 0.3 of the runes of a valid text are not graphic
\* (lines 505-516).
manyUnprintable(delimited) ==
  10 * Cardinality({i \in runeStarts(delimited) : ~IsGraphic(runeAt(delimited, i))})
    > 3 * Cardinality(runeStarts(delimited))

\* decodeBytes (lines 552-558): the end of a LEN field.
decodeBytes(w, opts, delimited) ==
  EndBlock(IF ~opts.ExplicitLengthPrefixes
           THEN Writef(NewLine(dumpHexString(w, delimited)), B("}"))
           ELSE dumpHexString(w, delimited))

\* decodeUtf8 (lines 503-549); a valid text with a rune above
\* unicode.MaxLatin1 is beyond the model.
decodeUtf8(w, opts, delimited) ==
  IF opts.NoQuotedStrings \/ ~utf8Valid(delimited, 1)
  THEN decodeBytes(w, opts, delimited)
  ELSE IF \E i \in runeStarts(delimited) :
            runeAt(delimited, i) < 0 \/ runeAt(delimited, i) > 255
  THEN decodeBytes([w EXCEPT !.unmodelled = TRUE], opts, delimited)
  ELSE IF manyUnprintable(delimited)
  THEN decodeBytes(w, opts, delimited)
  ELSE decodeBytes(Writef(quotedRunes(Writef(NewLine(w), <<chQuote>>), delimited, 1),
                          <<chQuote>>),
                   opts, <<>>)

\* w.descs.Pop()
popDesc(w) ==
  IF w.descs = <<>> THEN Panics(w, "index out of range")
  ELSE [w EXCEPT !.descs = SubSeq(@, 1, Len(@) - 1)]

RECURSIVE decodeField(_, _, _)

\* The loop over the fields of a message (lines 66-74 and 470-479):
\* [w, src], src being what is left when it stops.
RECURSIVE decodeFields(_, _, _)
decodeFields(w, opts, src) ==
  IF src = <<>> THEN [w |-> w, src |-> src]
  ELSE Let(decodeField(NewLine(w), opts, src), LAMBDA d :
         IF ~d.ok THEN [w |-> DiscardLine(d.w), src |-> src]
         ELSE decodeFields(d.w, opts, d.rest))

\* messageEnd without line 488, w.groups = outerGroups.
messageEndGroupsKept(w0, m, opts, delimited, fd) ==
  Let(resetGroups(IF fd # NilFd THEN popDesc(m.w) ELSE m.w, opts, Len(m.w.groups)),
      LAMBDA w :
    IF m.src = <<>> \/ (opts.AllFieldsAreMessages /\ Len(m.src) < Len(delimited))
    THEN decodeBytes(w, opts, m.src)
    ELSE decodeUtf8(Reset(w, Mark(w0)), opts, delimited))

\* Lines 480-500: the payload decoded as a message, m being what the loop
\* left, w0 the writer before.
messageEnd(w0, m, opts, delimited, fd) ==
  Let([resetGroups(IF fd # NilFd THEN popDesc(m.w) ELSE m.w, opts, Len(m.w.groups))
         EXCEPT !.groups = w0.groups], LAMBDA w :
    IF m.src = <<>> \/ (opts.AllFieldsAreMessages /\ Len(m.src) < Len(delimited))
    THEN decodeBytes(w, opts, m.src)
    ELSE decodeUtf8(Reset(w, Mark(w0)), opts, delimited))

\* Lines 462-500: the payload of a LEN field tried as a message.
decodeMessage(w, opts, delimited, fd) ==
  messageEnd(w,
             decodeFields([w EXCEPT !.groups = <<>>,
                                    !.descs = IF fd # NilFd THEN Append(@, fd.message)
                                              ELSE @],
                          opts, delimited),
             opts, delimited, fd)

\* Lines 418-458 and on: the payload of a LEN field by the kind of the field.
decodeDelimited(w, opts, delimited, fd) ==
  IF fd.kind \in {"BoolKind", "EnumKind", "Int32Kind", "Int64Kind", "Uint32Kind",
                  "Uint64Kind", "Sint32Kind", "Sint64Kind"}
  THEN Let(decodePacked(w, opts, delimited, fd, 0), LAMBDA p :
         decodeBytes(p.w, opts, p.delimited))
  ELSE IF fd.kind \in {"Fixed32Kind", "Sfixed32Kind", "FloatKind"}
  THEN Let(decodePacked(w, opts, delimited, fd, 5), LAMBDA p :
         decodeBytes(p.w, opts, p.delimited))
  ELSE IF fd.kind \in {"Fixed64Kind", "Sfixed64Kind", "DoubleKind"}
  THEN Let(decodePacked(w, opts, delimited, fd, 1), LAMBDA p :
         decodeBytes(p.w, opts, p.delimited))
  ELSE IF fd.kind \in {"StringKind", "BytesKind"}
  THEN decodeUtf8(w, opts, delimited)
  ELSE decodeMessage(w, opts, delimited, fd)

\* Lines 399-416: the length of a LEN field written and its block begun.
startDelimited(w, opts, len) ==
  IF opts.ExplicitLengthPrefixes
  THEN StartBlock(Writef(longForm(w, len.extraBytes), FormatInt(len.value)),
                  BlockInfo(FALSE, 2, 0))
  ELSE StartBlock(Writef(longForm(w, len.extraBytes), B("{")), BlockInfo(TRUE, 3, 1))

\* case 2 of decodeField (lines 380-558)
fieldLen(w, opts, src, fd) ==
  Let(Writef(IF opts.ExplicitWireTypes \/ opts.ExplicitLengthPrefixes
             THEN Writef(w, B("LEN")) ELSE w, <<32>>), LAMBDA named :
  Let(decodeVarint(src), LAMBDA len :
    IF ~len.ok THEN Decoded(named, <<>>, FALSE)
    ELSE IF U64Less(U64(Len(len.rest)), len.value) THEN Decoded(named, <<>>, FALSE)
    ELSE Decoded(decodeDelimited(startDelimited(named, opts, len), opts,
                                 SubSeq(len.rest, 1, U64ToInt(len.value)), fd),
                 SubSeq(len.rest, U64ToInt(len.value) + 1, Len(len.rest)), TRUE)))

\* case 3 of decodeField (lines 326-346)
fieldSGroup(w, opts, number, fd) ==
  Let([w EXCEPT !.descs = IF fd # NilFd THEN Append(@, fd.message) ELSE @], LAMBDA pushed :
  Let(IF opts.ExplicitWireTypes \/ opts.NoGroups
      THEN StartBlock(Writef(pushed, B("SGROUP")), BlockInfo(FALSE, 2, 1))
      ELSE StartBlock(Writef(pushed, B(" !{")), BlockInfo(TRUE, 3, 1)), LAMBDA begun :
    [begun EXCEPT !.groups = Append(@, [number |-> number, hasDesc |-> fd # NilFd])]))

\* closeGroup without the comparison of line 357: every EGROUP closes the
\* group popped.
closeGroupUnchecked(w, opts, lastGroup, number, extra) ==
  IF opts.ExplicitWireTypes \/ opts.NoGroups THEN EndBlock(Writef(w, B("EGROUP")))
  ELSE IF w.lines = <<>> THEN Panics(w, "index out of range")
  ELSE Let([w EXCEPT !.lines[Len(w.lines)].text = <<>>], LAMBDA cleared :
         EndBlock(Writef(IF extra > 0
                         THEN NewLine(Writef(cleared,
                                             B("long-form:") \o FormatUint(U64(extra))))
                         ELSE cleared,
                         B("}"))))

\* Lines 357-377: the end of the group popped, w without it.
closeGroup(w, opts, lastGroup, number, extra) ==
  IF lastGroup.number # number THEN Writef(resetGroup(w, opts), B("EGROUP"))
  ELSE IF opts.ExplicitWireTypes \/ opts.NoGroups THEN EndBlock(Writef(w, B("EGROUP")))
  ELSE IF w.lines = <<>> THEN Panics(w, "index out of range")
  ELSE Let([w EXCEPT !.lines[Len(w.lines)].text = <<>>], LAMBDA cleared :
         EndBlock(Writef(IF extra > 0
                         THEN NewLine(Writef(cleared,
                                             B("long-form:") \o FormatUint(U64(extra))))
                         ELSE cleared,
                         B("}"))))

\* case 4 of decodeField (lines 348-378)
fieldEGroup(w, opts, number, extra) ==
  IF w.groups = <<>> THEN Writef(w, B("EGROUP"))
  ELSE Let(w.groups[Len(w.groups)], LAMBDA lastGroup :
         closeGroup(IF lastGroup.hasDesc
                    THEN popDesc([w EXCEPT !.groups = SubSeq(@, 1, Len(@) - 1)])
                    ELSE [w EXCEPT !.groups = SubSeq(@, 1, Len(@) - 1)],
                    opts, lastGroup, number, extra))

\* The wire type name decodeField writes with ExplicitWireTypes, then the
\* space (lines 306-309, 313-316, 320-323).
wireName(w, opts, name) ==
  Writef(IF opts.ExplicitWireTypes THEN Writef(w, B(name)) ELSE w, <<32>>)

\* The switch of decodeField (lines 304-562), the tag written.
fieldBody(w, opts, src, tag, fd) ==
  Let(tag.value[1] % 8, LAMBDA wire :
    IF wire = 0 THEN writerDecodeVarint(wireName(w, opts, "VARINT"), opts, src, fd)
    ELSE IF wire = 1 THEN decodeI64(wireName(w, opts, "I64"), opts, src, fd)
    ELSE IF wire = 5 THEN decodeI32(wireName(w, opts, "I32"), opts, src, fd)
    ELSE IF wire = 3
    THEN Decoded(fieldSGroup(w, opts, U64Shr(tag.value, 3), fd), src, TRUE)
    ELSE IF wire = 4
    THEN Decoded(fieldEGroup(w, opts, U64Shr(tag.value, 3), tag.extraBytes), src, TRUE)
    ELSE IF wire = 2 THEN fieldLen(w, opts, src, fd)
    ELSE Decoded(w, <<>>, FALSE))

\* Lines 289-302 of decodeField: the tag written, with the name of the field.
fieldTag(w, opts, tag, fd) ==
  Let(Writef(longForm(w, tag.extraBytes), FormatUint(U64Shr(tag.value, 3)) \o B(":")),
      LAMBDA written :
    IF opts.PrintFieldNames /\ fd # NilFd THEN Remark(written, fd.name) ELSE written)

\* writer.decodeField(src)
decodeField(w, opts, src) ==
  Let(decodeVarint(src), LAMBDA tag :
    IF ~tag.ok THEN Decoded(w, <<>>, FALSE)
    ELSE IF U64Shr(tag.value, 3) = U64Zero /\ ~opts.AllFieldsAreMessages
    THEN Decoded(w, <<>>, FALSE)
    ELSE Let(fieldDescriptor(w, U64Shr(tag.value, 3)), LAMBDA fd :
           fieldBody(fieldTag(w, opts, tag, fd), opts, tag.rest, tag, fd)))

\* Write(src, opts), lines 57-83, from the bytes to the text: [panic, out].
Write(src, opts) ==
  Let(decodeFields(NewWriter(IF opts.Schema # NilDesc THEN <<opts.Schema>> ELSE <<>>),
                   opts, src), LAMBDA m :
    Finish(dumpHexString(resetGroups(m.w, opts, Len(m.w.groups)), m.src)))

----------------------------------------------------------------------------
(* Bounds and input sets of the codec specification.                       *)

\* The largest longForm (extra) drawn.
MaxExtra == 11

\* The largest number of leading continuation bytes of a drawn varint.
MaxLead == 11

\* 2^k and 2^k - 1 for every bit k, the all-ones word and some others.
U64Pow2(k) ==
  LET q == k \div 16
      p == Pow2(k % 16)
  IN  <<IF q = 0 THEN p ELSE 0, IF q = 1 THEN p ELSE 0,
        IF q = 2 THEN p ELSE 0, IF q = 3 THEN p ELSE 0>>

CodecValues ==
  {U64Pow2(k) : k \in 0..63}
  \cup {U64Not(U64Negate(U64Pow2(k))) : k \in 0..63}
  \cup {U64Zero, U64Max, U64(300), <<1, 0, 1, 0>>, <<0, 128, 0, 32768>>}

RECURSIVE Repeat(_, _)
Repeat(b, n) == IF n = 0 THEN <<>> ELSE <<b>> \o Repeat(b, n - 1)

\* Byte strings handed to decodeVarint: n continuation bytes, the first of
\* them possibly another one, then perhaps a last byte, then perhaps a tail.
CodecInputs ==
  {Repeat(f, n) \o last \o tail :
     f \in {128, 255, 129}, n \in 0..MaxLead,
     last \in {<<>>, <<0>>, <<1>>, <<2>>, <<127>>},
     tail \in {<<>>, <<5>>, <<128, 1>>}}
  \cup {<<g>> \o Repeat(128, n) \o last :
     g \in {129, 255}, n \in 0..MaxLead, last \in {<<0>>, <<1>>, <<3>>}}
  \cup {<<128, 129, 0>>, <<128, 129, 128, 0>>, <<255, 128, 255, 128, 0, 9>>,
        <<128, 128, 129, 128, 128, 0, 7>>,
        <<128, 129, 128, 128, 128, 128, 128, 128, 128, 1>>,
        <<128, 129, 128, 128, 128, 128, 128, 128, 128, 0>>}

VARIABLES
  vMode,      \* what the run started from: "value", "bytes", or "idle"
  vpc,        \* codec run: "encode", "decode", "reencode", "done", or "idle"
  vValue,     \* the word given to encodeVarint
  vLongForm,  \* the longForm given to encodeVarint
  vBytes,     \* the bytes given to decodeVarint
  vDec,       \* what decodeVarint returned
  vReenc,     \* encodeVarint of what decodeVarint returned
  Input,      \* Scanner.Input, the text being assembled
  pos,        \* Scanner.pos, the cursor
  frames,     \* the calls of Scanner.exec in progress, the innermost last
  ret,        \* what Exec returned: [state, out, err]
  lexemes,    \* the lexemes the text was put together from
  lexIdx,     \* how many tokens Scanner.next has been asked for
  given,      \* the bytes Write was given
  options,    \* the WriterOptions Write was given
  unread,     \* src of Write: the bytes not yet decoded
  writer,     \* the writer of Write
  printed,    \* the text Write returned
  wpc         \* Write: "fields", "finish", "written", "panicked", "unmodelled", or "idle"

codecVars == <<vMode, vpc, vValue, vLongForm, vBytes, vDec, vReenc>>

scanVars == <<Input, pos, frames, ret, lexemes, lexIdx>>

writeVars == <<given, options, unread, writer, printed, wpc>>

\* Exec has not been called.
NoReturn == [state |-> "idle", out |-> <<>>, err |-> NoError]

ScanIdle ==
  /\ Input = <<>> /\ pos = ZeroPosition /\ frames = <<>> /\ ret = NoReturn
  /\ lexemes = <<>> /\ lexIdx = 0

\* WriterOptions{}
NoOptions ==
  [NoQuotedStrings |-> FALSE, AllFieldsAreMessages |-> FALSE, NoGroups |-> FALSE,
   ExplicitWireTypes |-> FALSE, ExplicitLengthPrefixes |-> FALSE,
   Schema |-> NilDesc, PrintFieldNames |-> FALSE, PrintEnumNames |-> FALSE]

\* Write has not been called.
WriteIdle ==
  /\ given = <<>> /\ options = NoOptions /\ unread = <<>>
  /\ writer = NewWriter(<<>>) /\ printed = <<>> /\ wpc = "idle"

NoDec == [ok |-> FALSE, rest |-> <<>>, value |-> U64Zero, extraBytes |-> 0, count |-> 0]

CodecIdle ==
  /\ vMode = "idle" /\ vpc = "idle" /\ vValue = U64Zero /\ vLongForm = 0
  /\ vBytes = <<>> /\ vDec = NoDec /\ vReenc = <<>>

CodecInit ==
  /\ ScanIdle
  /\ WriteIdle
  /\ vDec = NoDec /\ vReenc = <<>>
  /\ \/ /\ vMode = "value" /\ vpc = "encode"
        /\ vValue \in CodecValues
        /\ vLongForm \in 0..MaxExtra
        /\ vBytes = <<>>
     \/ /\ vMode = "bytes" /\ vpc = "decode"
        /\ vValue = U64Zero /\ vLongForm = 0
        /\ vBytes \in CodecInputs

\* encodeVarint(nil, value, longForm)
EncodeVarint ==
  /\ vpc = "encode"
  /\ vBytes' = encodeVarint(<<>>, vValue, vLongForm)
  /\ vpc' = "decode"
  /\ UNCHANGED <<vMode, vValue, vLongForm, vDec, vReenc>>
  /\ UNCHANGED <<scanVars, writeVars>>

\* decodeVarint(src)
DecodeVarint ==
  /\ vpc = "decode"
  /\ vDec' = decodeVarint(vBytes)
  /\ vpc' = IF vDec'.ok THEN "reencode" ELSE "done"
  /\ UNCHANGED <<vMode, vValue, vLongForm, vBytes, vReenc>>
  /\ UNCHANGED <<scanVars, writeVars>>

\* encodeVarint(nil, value, extra) of a decoded varint, as the assembler
\* does with the long-form:N the disassembler printed for it.
ReencodeVarint ==
  /\ vpc = "reencode"
  /\ vReenc' = encodeVarint(<<>>, vDec.value, vDec.extraBytes)
  /\ vpc' = "done"
  /\ UNCHANGED <<vMode, vValue, vLongForm, vBytes, vDec>>
  /\ UNCHANGED <<scanVars, writeVars>>

CodecNext == EncodeVarint \/ DecodeVarint \/ ReencodeVarint

vars == <<codecVars, scanVars, writeVars>>

SpecCodec == CodecInit /\ [][CodecNext]_vars

----------------------------------------------------------------------------
(* Reference definitions the codec claims are stated with.                 *)

\* The number of seven-bit groups the word needs (1 for zero).
CanonicalLen(v) ==
  IF \E n \in 1..9 : U64Less(v, U64Pow2(7 * n))
  THEN CHOOSE n \in 1..9 :
         /\ U64Less(v, U64Pow2(7 * n))
         /\ n > 1 => ~U64Less(v, U64Pow2(7 * (n - 1)))
  ELSE 10

\* The little-endian base-128 number written by bytes 1..k of bs, by
\* Horner's rule from the last byte down: [v, carry].
RECURSIVE Base128(_, _)
Base128(bs, k) ==
  IF k = 0 THEN [v |-> U64Zero, carry |-> 0]
  ELSE LET hi == Base128(SubSeq(bs, 2, k), k - 1)
           r == U64MulAdd(hi.v, 128, bs[1] % 128)
       IN  [v |-> r.v, carry |-> hi.carry + r.carry]

\* The position of the first byte without the continuation bit, 0 if none.
FirstTerminator(bs) ==
  IF \E i \in 1..Len(bs) : bs[i] < 128
  THEN CHOOSE i \in 1..Len(bs) : bs[i] < 128 /\ \A j \in 1..(i - 1) : bs[j] >= 128
  ELSE 0

CodecDecoded == vpc \in {"reencode", "done"}

\* C3 as stated: for every 64-bit value and every extra >= 0,
\* decodeVarint(encodeVarint(value, extra)) succeeds and returns
\* (value, len, extra) with nothing left over, len = canonical length + extra.
C3_RoundTripEveryExtra ==
  (vMode = "value" /\ CodecDecoded) =>
     /\ vDec.ok
     /\ vDec.value = vValue
     /\ vDec.extraBytes = vLongForm
     /\ vDec.rest = <<>>
     /\ vDec.count = Len(vBytes)
     /\ Len(vBytes) = CanonicalLen(vValue) + vLongForm

\* C3 amended: the same, for every value and extra whose encoding is at
\* most ten bytes long (canonical length + extra <= 10); a longer encoding
\* is refused by decodeVarint.
C3_RoundTripUpToTenBytes ==
  (vMode = "value" /\ CodecDecoded) =>
     /\ Len(vBytes) = CanonicalLen(vValue) + vLongForm
     /\ IF CanonicalLen(vValue) + vLongForm <= 10
        THEN /\ vDec.ok
             /\ vDec.value = vValue
             /\ vDec.extraBytes = vLongForm
             /\ vDec.rest = <<>>
             /\ vDec.count = Len(vBytes)
        ELSE ~vDec.ok

C3_Witness ==
  /\ vMode = "value" /\ CodecDecoded
  /\ vValue = U64(300) /\ vLongForm = 3
  /\ vBytes = <<172, 130, 128, 128, 0>>
  /\ vDec.ok /\ vDec.extraBytes = 3

\* C4: decodeVarint reads at most ten bytes; it fails exactly when no byte
\* without the continuation bit is read before the input ends or when the
\* tenth byte is greater than 1; otherwise it returns the little-endian
\* base-128 value of the bytes it consumed and the rest of the input.
C4_DecodeVarint ==
  CodecDecoded =>
    LET k == FirstTerminator(vBytes)
        fails == k = 0 \/ (k >= 10 /\ vBytes[10] > 1)
    IN  /\ vDec.count <= 10
        /\ vDec.ok <=> ~fails
        /\ vDec.ok =>
             /\ vDec.count = k
             /\ vDec.rest = SubSeq(vBytes, k + 1, Len(vBytes))
             /\ Base128(vBytes, k) = [v |-> vDec.value, carry |-> 0]

C4_Witness ==
  /\ vMode = "bytes" /\ CodecDecoded
  /\ vDec.ok /\ vDec.count = 10 /\ vDec.rest = <<128, 1>>
  /\ vDec.value = U64Max

----------------------------------------------------------------------------
(* The assembler: Scanner.Exec as a state machine, one step per token.     *)

Top == frames[Len(frames)]

\* The token the innermost exec gets from next, with what next leaves behind.
Scanned == next(Input, pos, Top.lengthModifier)

\* return nil, err  -- through every exec in progress.
ExecFails(err) ==
  /\ frames' = <<>>
  /\ ret' = [state |-> IF err = Unmodelled THEN "unmodelled" ELSE "returned",
             out |-> <<>>, err |-> err]

\* The frame on top replaced by f.
SetTop(f) == [frames EXCEPT ![Len(frames)] = f]

\* token, err := s.next(&lengthModifier); if err != nil { return nil, err }
ExecNextError ==
  /\ ret.state = "running"
  /\ \E r \in {Scanned} :
       /\ r.err # NoError
       /\ pos' = r.pos
       /\ ExecFails(r.err)
  /\ lexIdx' = lexIdx + 1
  /\ UNCHANGED <<Input, lexemes, codecVars, writeVars>>

\* The length modifier check after next (lines 509-511).
ExecModifierError ==
  /\ ret.state = "running"
  /\ \E r \in {Scanned} :
       /\ r.err = NoError
       /\ misplacedModifier(r.lengthModifier, r.tok)
       /\ pos' = r.pos
       /\ ExecFails(ParseError(r.lengthModifier.Pos,
                               "length modifier was not followed by '{' or varint"))
  /\ lexIdx' = lexIdx + 1
  /\ UNCHANGED <<Input, lexemes, codecVars, writeVars>>

\* What the cases of the switch share: next succeeded with r and the check
\* passed on a token of the kind.
ExecGets(r, kind) ==
  /\ r.err = NoError
  /\ ~misplacedModifier(r.lengthModifier, r.tok)
  /\ r.tok.Kind = kind
  /\ pos' = r.pos
  /\ lexIdx' = lexIdx + 1
  /\ UNCHANGED <<Input, lexemes, codecVars, writeVars>>

\* case tokenBytes
ExecTokenBytes ==
  /\ ret.state = "running"
  /\ \E r \in {Scanned} :
       /\ ExecGets(r, "tokenBytes")
       /\ LET patched == patchWireType(Top.out, Top.inferredTypeIndex, r.tok.WireType)
          IN  frames' = SetTop([Top EXCEPT
                !.out = patched \o r.tok.Value,
                !.inferredTypeIndex = IF r.tok.InferredType THEN Len(patched) ELSE -1,
                !.lengthModifier = r.lengthModifier])
  /\ UNCHANGED ret

\* case tokenLongForm
ExecTokenLongForm ==
  /\ ret.state = "running"
  /\ \E r \in {Scanned} :
       /\ ExecGets(r, "tokenLongForm")
       /\ frames' = SetTop([Top EXCEPT !.lengthModifier = r.tok])
  /\ UNCHANGED ret

\* A block whose exec takes over the length modifier pending at its `{`.
ExecTokenLeftCurlyHandsOver ==
  /\ ret.state = "running"
  /\ \E r \in {Scanned} :
       /\ ExecGets(r, "tokenLeftCurly")
       /\ frames' = Append(SetTop([Top EXCEPT
                       !.out = patchWireType(Top.out, Top.inferredTypeIndex, 2),
                       !.inferredTypeIndex = -1,
                       !.lengthModifier = r.lengthModifier]),
                     [Frame(r.tok) EXCEPT !.lengthModifier = r.lengthModifier])
  /\ UNCHANGED ret

\* case tokenLeftCurly, up to the call of exec for the block.
ExecTokenLeftCurly ==
  /\ ret.state = "running"
  /\ \E r \in {Scanned} :
       /\ ExecGets(r, "tokenLeftCurly")
       /\ frames' = Append(SetTop([Top EXCEPT
                       !.out = patchWireType(Top.out, Top.inferredTypeIndex, 2),
                       !.inferredTypeIndex = -1,
                       !.lengthModifier = r.lengthModifier]),
                     Frame(r.tok))
  /\ UNCHANGED ret

\* case tokenRightCurly: the block's exec returns and its caller finishes the
\* tokenLeftCurly case; with no block open, the error.
ExecTokenRightCurly ==
  /\ ret.state = "running"
  /\ \E r \in {Scanned} :
       /\ ExecGets(r, "tokenRightCurly")
       /\ IF Top.leftCurly # NilToken
          THEN LET caller == frames[Len(frames) - 1]
               IN  /\ frames' = [SubSeq(frames, 1, Len(frames) - 1)
                                   EXCEPT ![Len(frames) - 1] =
                                     [caller EXCEPT
                                        !.out = closeBlock(caller.out, Top.out,
                                                           caller.lengthModifier),
                                        !.lengthModifier = NilToken]]
                   /\ UNCHANGED ret
          ELSE ExecFails(ParseError(r.tok.Pos, "unmatched '}'"))

\* case tokenEOF
ExecTokenEOF ==
  /\ ret.state = "running"
  /\ \E r \in {Scanned} :
       /\ ExecGets(r, "tokenEOF")
       /\ IF Top.leftCurly = NilToken
          THEN /\ frames' = <<>>
               /\ ret' = [state |-> "returned", out |-> Top.out, err |-> NoError]
          ELSE ExecFails(ParseError(Top.leftCurly.Pos, "unmatched '{'"))

ScanNext ==
  \/ ExecNextError
  \/ ExecModifierError
  \/ ExecTokenBytes
  \/ ExecTokenLongForm
  \/ ExecTokenLeftCurly
  \/ ExecTokenRightCurly
  \/ ExecTokenEOF

----------------------------------------------------------------------------
(* The texts handed to Exec: lexemes, each one token, joined by a          *)
(* separator.                                                              *)

\* A lexeme: its text, what the language calls it, and what it stands for:
\* the field number n and wire type w of a tag, the word a varint-encoded
\* integer puts on the wire, the N of a long-form:N.
Lx(text, class) ==
  [text |-> text, class |-> class, n |-> U64Zero, w |-> 0, wire |-> U64Zero,
   length |-> 0]

IntLx(text, class, wire) == [Lx(B(text), class) EXCEPT !.wire = wire]

TagLx(n, name, w, class) ==
  [Lx(FormatUint(n) \o B(":") \o B(name), class) EXCEPT !.n = n, !.w = w]

LongFormLx(length) ==
  [Lx(B("long-form:") \o FormatUint(U64(length)), "longform") EXCEPT !.length = length]

\* 2^61 - 1, the largest field number whose tag fits a 64-bit word.
MaxFieldNumber == <<65535, 65535, 65535, 8191>>

\* The field numbers of the tag expressions tried alone.
TagNumbers ==
  {U64(1), U64(2), U64(15), U64(16), U64(300), <<0, 0, 1, 0>>, MaxFieldNumber,
   <<0, 0, 0, 8192>>, <<65535, 65535, 65535, 32767>>, <<0, 0, 0, 32768>>}

\* The wire types a tag can name, by keyword and by number: <<text, w>>.
WireTypes ==
  {<<"VARINT", 0>>, <<"I64", 1>>, <<"LEN", 2>>, <<"SGROUP", 3>>, <<"EGROUP", 4>>,
   <<"I32", 5>>, <<"0", 0>>, <<"1", 1>>, <<"2", 2>>, <<"3", 3>>, <<"4", 4>>,
   <<"5", 5>>, <<"6", 6>>, <<"7", 7>>}

\* Wire types that are none: above 7, or no name of the language.
BadWireTypes == {"8", "9", "12", "LMAO", "len", "VARINTS"}

TagLexemes ==
  {TagLx(n, t[1], t[2], "tag") : n \in TagNumbers, t \in WireTypes}
  \cup {TagLx(n, t, 0, "badtag") : n \in {U64(1), U64(300)}, t \in BadWireTypes}
  \cup {TagLx(n, "", 0, "itag") : n \in {m \in TagNumbers : ~U64Less(MaxFieldNumber, m)}}

\* The lexemes of every kind of the language, one or two of each.
Lexemes ==
  { TagLx(U64(1), "", 0, "itag"), TagLx(U64(300), "", 0, "itag"),
    TagLx(U64(2), "LEN", 2, "tag"),
    IntLx("5", "int", U64(5)), IntLx("-1", "int", U64Max),
    IntLx("-3z", "zigzag", U64(5)),
    Lx(B("7i32"), "i32"), Lx(B("7i64"), "i64"),
    Lx(B("1.5"), "float64"), Lx(B("1.5i32"), "float32"),
    Lx(B("inf32"), "inf32"), Lx(B("-inf64"), "inf64"),
    Lx(B("true"), "bool"), Lx(B("\"ab\""), "string"),
    Lx(<<chBacktick, 48, 97, chBacktick>>, "hex"),
    LongFormLx(2), Lx(B("{"), "lcurly"), Lx(B("}"), "rcurly"),
    Lx(B("xyz"), "bad"), Lx(B("!{"), "group") }

\* A fixed-width integer literal: its text, the width of its suffix, whether
\* its value lies in [-2^31, 2^32 - 1] (i32) or [-2^63, 2^64 - 1] (i64), and
\* the value modulo 2^bits.
FixedLx(text, bits, inRange, word) ==
  [Lx(B(text), "fixed") EXCEPT !.w = bits, !.length = IF inRange THEN 1 ELSE 0,
                               !.wire = word]

\* Fixed-width literals at the ends of the two ranges and on both sides of
\* them, in decimal and in hex.
FixedLexemes ==
  { FixedLx("0i32", 32, TRUE, U64Zero),
    FixedLx("0xaaai32", 32, TRUE, U64(2730)),
    FixedLx("-0xaaai32", 32, TRUE, <<62806, 65535, 0, 0>>),
    FixedLx("4294967295i32", 32, TRUE, <<65535, 65535, 0, 0>>),
    FixedLx("4294967296i32", 32, FALSE, U64Zero),
    FixedLx("-1i32", 32, TRUE, <<65535, 65535, 0, 0>>),
    FixedLx("-2147483648i32", 32, TRUE, <<0, 32768, 0, 0>>),
    FixedLx("-2147483649i32", 32, FALSE, U64Zero),
    FixedLx("-4294967296i32", 32, FALSE, U64Zero),
    FixedLx("-4294967297i32", 32, FALSE, U64Zero),
    FixedLx("0i64", 64, TRUE, U64Zero),
    FixedLx("-0xaaai64", 64, TRUE, <<62806, 65535, 65535, 65535>>),
    FixedLx("9223372036854775807i64", 64, TRUE, <<65535, 65535, 65535, 32767>>),
    FixedLx("9223372036854775808i64", 64, TRUE, <<0, 0, 0, 32768>>),
    FixedLx("18446744073709551615i64", 64, TRUE, U64Max),
    FixedLx("18446744073709551616i64", 64, FALSE, U64Zero),
    FixedLx("-1i64", 64, TRUE, U64Max),
    FixedLx("-9223372036854775807i64", 64, TRUE, <<1, 0, 0, 32768>>),
    FixedLx("-9223372036854775808i64", 64, TRUE, <<0, 0, 0, 32768>>),
    FixedLx("-9223372036854775809i64", 64, FALSE, U64Zero) }

\* Zigzag literals x z with the word 2x for x >= 0 and -2x - 1 for x < 0,
\* which is ((x << 1) XOR (x >> 63)) as an unsigned word.
ZigzagLexemes ==
  { IntLx("0z", "zigzag", U64Zero), IntLx("1z", "zigzag", U64(2)),
    IntLx("-1z", "zigzag", U64(1)), IntLx("42z", "zigzag", U64(84)),
    IntLx("-42z", "zigzag", U64(83)), IntLx("0x7fz", "zigzag", U64(254)),
    IntLx("-0x80z", "zigzag", U64(255)),
    IntLx("9223372036854775807z", "zigzag", <<65534, 65535, 65535, 65535>>),
    IntLx("-9223372036854775807z", "zigzag", <<65533, 65535, 65535, 65535>>) }

\* A quoted string with octal escapes; wire holds the bytes language.txt
\* gives it, length is 0 where an escape is worth more than 255.
OctalLx(text, fits, bytes) ==
  [Lx(B(text), "octal") EXCEPT !.length = IF fits THEN 1 ELSE 0, !.wire = bytes]

\* The "oct" cases of TestScan, and escapes of four digits and at the ends
\* of the range of a byte.
OctalLexemes ==
  { OctalLx("\"\\0\"", TRUE, <<0>>), OctalLx("\"\\08\"", TRUE, <<0, 56>>),
    OctalLx("\"\\13\"", TRUE, <<11>>), OctalLx("\"\\13X\"", TRUE, <<11, 88>>),
    OctalLx("\"Y\\13\"", TRUE, <<89, 11>>), OctalLx("\"\\007\"", TRUE, <<7>>),
    OctalLx("\"\\127o\\127\"", TRUE, <<87, 111, 87>>),
    OctalLx("\"\\127\\x40\\127\"", TRUE, <<87, 64, 87>>),
    OctalLx("\"\\1234\"", TRUE, <<83, 52>>), OctalLx("\"\\377\"", TRUE, <<255>>),
    OctalLx("\"\\400\"", FALSE, <<>>), OctalLx("\"\\777\"", FALSE, <<>>) }

\* The zigzag literal of the least signed 64-bit integer.
ZigzagMin == IntLx("-9223372036854775808z", "zigzagmin", U64Max)

\* The lexemes that decide what the token after them means.
CoreLexemes ==
  { TagLx(U64(1), "", 0, "itag"), TagLx(U64(300), "", 0, "itag"), LongFormLx(2),
    Lx(B("{"), "lcurly"), Lx(B("}"), "rcurly"), IntLx("5", "int", U64(5)) }

\* The lexemes that blocks are nested with.
BlockLexemes ==
  { Lx(B("{"), "lcurly"), Lx(B("}"), "rcurly"), TagLx(U64(1), "", 0, "itag"),
    LongFormLx(1), Lx(B("7i32"), "i32") }

\* Texts with blocks nested deeper than the sequences below reach, and
\* texts with groups.
NestedInputs ==
  LET open == Lx(B("{"), "lcurly")
      close == Lx(B("}"), "rcurly")
      tag == TagLx(U64(1), "", 0, "itag")
      long == LongFormLx(1)
      five == IntLx("5", "int", U64(5))
      fixed == Lx(B("7i32"), "i32")
      group == Lx(B("!{"), "group")
  IN  { <<long, open, open, five, close, close>>,
        <<tag, open, tag, long, open, fixed, close, five, close>>,
        <<open, open, open, five, close, close, close>>,
        <<tag, long, open, tag, open, tag, close, close, tag, fixed>>,
        <<open, long, open, close, tag, open, close, close, long, five>>,
        <<long, open, five, tag, close, fixed>>,
        <<tag, open, long, tag, open, open, close, long, close>>,
        <<tag, group, close>>,
        <<tag, group, tag, five, close, five>> }

\* The longest sequence of any lexemes.
MaxTokens == 2

\* The longest sequence of block lexemes.
MaxBlockTokens == 5

\* What stands between two lexemes: after the i-th, the i-th of these, in
\* turn.
Separators == <<B(" "), B(" # to the end of the line\n\t"), B("\n")>>

RECURSIVE JoinFrom(_, _)
JoinFrom(ls, i) ==
  IF i > Len(ls) THEN <<>>
  ELSE IF i = Len(ls) THEN ls[i].text
  ELSE ls[i].text \o Separators[((i - 1) % Len(Separators)) + 1] \o JoinFrom(ls, i + 1)

Join(ls) == JoinFrom(ls, 1)

ScanInputs ==
  {<<l>> : l \in TagLexemes \cup FixedLexemes \cup ZigzagLexemes \cup {ZigzagMin}
                  \cup OctalLexemes}
  \cup {<<LongFormLx(k), l>> : k \in {1, 5}, l \in ZigzagLexemes}
  \cup UNION {[1..k -> Lexemes] : k \in 0..MaxTokens}
  \cup {<<a, b, c>> : a \in CoreLexemes, b \in CoreLexemes, c \in Lexemes}
  \cup UNION {[1..k -> BlockLexemes] : k \in (MaxTokens + 2)..MaxBlockTokens}
  \cup NestedInputs

\* NewScanner(input), then Exec: s.exec(nil) begins.
ScanInit ==
  /\ CodecIdle
  /\ WriteIdle
  /\ lexemes \in ScanInputs
  /\ Input = Join(lexemes)
  /\ pos = ZeroPosition
  /\ frames = <<Frame(NilToken)>>
  /\ ret = [NoReturn EXCEPT !.state = "running"]
  /\ lexIdx = 0

SpecScan == ScanInit /\ [][ScanNext]_vars

----------------------------------------------------------------------------
(* Write: the steps of the disassembler, and Exec on what it returned.     *)

\* writer{WriterOptions: opts} after lines 58-64 of Write.
WriterFor(opts) == NewWriter(IF opts.Schema # NilDesc THEN <<opts.Schema>> ELSE <<>>)

\* Where Write goes on from a writer: "panicked" after a panic, "unmodelled"
\* when the model could not follow the library, otherwise to.
Onward(w, to) ==
  IF w.panic # "" THEN "panicked" ELSE IF w.unmodelled THEN "unmodelled" ELSE to

\* A round that does not go on from where decodeField stopped.
WriteFieldAgain ==
  /\ wpc = "fields"
  /\ \E d \in {decodeField(NewLine(writer), options, unread)} :
       IF d.ok
       THEN /\ writer' = d.w
            /\ unread' = unread
            /\ wpc' = Onward(d.w, "fields")
       ELSE /\ writer' = DiscardLine(d.w)
            /\ unread' = unread
            /\ wpc' = Onward(writer', "finish")
  /\ UNCHANGED <<given, options, printed, codecVars, scanVars>>

\* One round of the loop of Write (lines 66-74).
WriteField ==
  /\ wpc = "fields"
  /\ \E d \in {decodeField(NewLine(writer), options, unread)} :
       IF d.ok
       THEN /\ writer' = d.w
            /\ unread' = d.rest
            /\ wpc' = Onward(d.w, IF d.rest # <<>> THEN "fields" ELSE "finish")
       ELSE /\ writer' = DiscardLine(d.w)
            /\ unread' = unread
            /\ wpc' = Onward(writer', "finish")
  /\ UNCHANGED <<given, options, printed, codecVars, scanVars>>

\* The end of Write (lines 76-82): the groups left open reset, the bytes
\* left dumped, and Finish.
WriteFinish ==
  /\ wpc = "finish"
  /\ writer' = dumpHexString(resetGroups(writer, options, Len(writer.groups)), unread)
  /\ \E f \in {Finish(writer')} :
       /\ printed' = f.out
       /\ wpc' = IF f.panic # "" THEN "panicked"
                 ELSE IF writer'.unmodelled THEN "unmodelled" ELSE "written"
  /\ UNCHANGED <<given, options, unread, codecVars, scanVars>>

\* NewScanner(text).Exec() on the text Write returned.
ExecWritten ==
  /\ wpc = "written"
  /\ ret.state = "idle"
  /\ Input' = printed
  /\ pos' = ZeroPosition
  /\ frames' = <<Frame(NilToken)>>
  /\ ret' = [NoReturn EXCEPT !.state = "running"]
  /\ UNCHANGED <<lexemes, lexIdx, codecVars, writeVars>>

RoundNext == WriteField \/ WriteFinish \/ ExecWritten \/ ScanNext

----------------------------------------------------------------------------
(* Inputs of the round trip: the bytes and the options given to Write.     *)

\* The bytes of float32 and float64 values, little-endian.
F32(v) == PutUint32(v)

F64(v) == PutUint64(v)

\* Fields as they stand on the wire, each a tag and what follows it; the
\* tag of field n with wire type w below 16 is the byte 8n + w.
Scalars ==
  { <<8, 1>>,                                        \* 1: 1
    <<8, 150, 1>>,                                   \* 1: 150
    <<8, 255, 255, 255, 255, 255, 255, 255, 255, 255, 1>>,   \* 1: -1
    <<8, 128, 128, 128, 128, 128, 128, 128, 128, 128, 1>>,   \* 1: -9223372036854775808
    <<8, 129, 0>>,                                   \* 1: long-form:1 1
    <<136, 0, 1>>,                                   \* long-form:1 1: 1
    <<40, 3>>,                                       \* 5: 3 (sint32: -2z)
    <<32, 255, 255, 255, 255, 255, 255, 255, 255, 255, 1>>,  \* 4: -1 (uint64)
    <<104, 1>>, <<104, 2>>, <<104, 129, 0>>,         \* 13: 1, 2, long-form:1 1 (bool)
    <<168, 1, 2>>, <<168, 1, 9>>,                    \* 21: 2, 9 (enum: BAR, none)
    <<168, 1, 130, 0>>,                              \* 21: long-form:1 2
    <<40, 131, 0>>,                                  \* 5: long-form:1 3 (-2z)
    <<40, 254, 255, 255, 255, 255, 255, 255, 255, 255, 1>>,  \* 5: 2^63 - 1 as z
    <<40, 255, 255, 255, 255, 255, 255, 255, 255, 255, 1>>,  \* 5: -2^63 as z
    <<32, 255, 255, 255, 255, 255, 255, 255, 255, 127>>,     \* 4: 2^63 - 1
    <<9>> \o F64(<<0, 0, 0, 16376>>),                \* 1: 1.5
    <<9>> \o F64(<<61264, 55010, 6884, 17483>>),     \* 1: 1.0e21
    <<9>> \o F64(<<1, 0, 0, 0>>),                    \* 1: 1i64
    <<9>> \o F64(<<0, 0, 0, 65520>>),                \* 1: -inf64
    <<9>> \o F64(<<1, 0, 0, 32752>>),                \* 1: 0x7ff0000000000001i64
    <<97>> \o F64(<<0, 0, 0, 16384>>),               \* 12: 2.0 (double)
    <<81>> \o F64(<<65535, 65535, 65535, 65535>>),   \* 10: -1i64 (sfixed64)
    <<13>> \o F32(<<0, 16320, 0, 0>>),               \* 1: 1.5i32
    <<13>> \o F32(<<52429, 15820, 0, 0>>),           \* 1: 0.1i32
    <<13>> \o F32(<<0, 0, 0, 0>>),                   \* 1: 0.0i32
    <<13>> \o F32(<<0, 32640, 0, 0>>),               \* 1: inf32
    <<13>> \o F32(<<0, 65408, 0, 0>>),               \* 1: -inf32
    <<13>> \o F32(<<0, 32704, 0, 0>>),               \* 1: 0x7fc00000i32
    <<13>> \o F32(<<65535, 65535, 0, 0>>),           \* 1: 0xffffffffi32
    <<13>> \o F32(<<1, 0, 0, 0>>),                   \* 1: 1i32
    <<93>> \o F32(<<1, 0, 0, 0>>),                   \* 11: 1.0e-45i32 (float)
    <<61>> \o F32(<<0, 32768, 0, 0>>) }              \* 7: 2147483648i32 (fixed32)

\* LEN fields: empty, a message, a string, bytes, a message with a tail,
\* packed scalars, a string and a message under the schema.
Delimiteds ==
  { <<10, 0>>, <<10, 2, 8, 1>>, <<10, 2, 104, 105>>, <<10, 1, 255>>,
    <<10, 3, 8, 1, 255>>, <<10, 2, 10, 0>>, <<10, 3, 1, 2, 3>>,
    <<10, 4, 8, 1, 11, 12>>, <<10, 3, 11, 8, 1>>, <<10, 1, 12>>,
    <<10, 4, 34, 195, 169, 92>>, <<10, 2, 194, 128>>, <<10, 3, 104, 10, 105>>,
    <<10, 129, 0, 8>>, <<10, 5, 10, 3, 10, 1, 8>>,
    <<114, 0>>, <<114, 2, 104, 105>>, <<122, 1, 255>>,
    <<146, 1, 2, 8, 1>>, <<146, 1, 4, 168, 1, 8, 1>>,
    <<58, 5, 1, 0, 0, 0, 9>>, <<170, 1, 3, 1, 2, 9>> }

\* Group tags: SGROUP and EGROUP of the fields 1, 2 and 16.
GroupTags == { <<11>>, <<12>>, <<19>>, <<20>>, <<131, 1>>, <<132, 1>>, <<140, 0>> }

\* Bytes no field begins with: field 0, the wire types 6 and 7, a varint
\* cut short, a length beyond the end.
Junk == { <<0>>, <<14>>, <<15>>, <<128>>, <<8>>, <<10, 5, 1>>, <<9, 1, 2>> }

\* The bytes b repeated to n bytes.
Fill(b, n) == [i \in 1..n |-> b]

\* The most fields one input is put together from.
MaxFields == 2

\* Inputs put together by hand: groups closed and open around fields, the
\* long rows of the hex dump and of the quoted string.
LongInputs ==
  { <<11, 8, 1, 12>>, <<11, 8, 1, 20>>, <<11, 19, 12, 20>>, <<11, 19, 20, 12>>,
    <<11, 10, 2, 8, 1, 12>>, <<11, 11, 12, 12, 12>>, <<11, 8, 1, 140, 0>>,
    <<131, 1, 136, 1, 7, 132, 1, 8, 1>>, <<131, 1, 136, 1, 7, 255>>,
    <<10, 3, 131, 1, 8, 8, 1>>, <<146, 1, 3, 131, 1, 8, 8, 1>>,
    <<8, 1>> \o Fill(255, 41),
    <<10, 42>> \o Fill(255, 42), <<11, 10, 1, 255, 0>>,
    <<11, 10, 1, 12, 12>>, <<11, 10, 1, 11, 12>>, <<10, 1, 11, 12>>,
    <<11, 10, 2, 11, 12, 12>>, <<11, 10, 2, 12, 255, 12>>,
    <<146, 1, 1, 11, 8, 1>>, <<146, 1, 2, 11, 12, 8, 1>>,
    <<131, 1, 136, 1, 7, 12, 8, 1>>, <<10, 2, 12, 255, 10, 1, 255>>,
    <<11, 11, 11, 11, 12, 12, 12, 12>>, <<10, 6, 10, 4, 10, 2, 10, 0>>,
    <<58, 5, 1, 0, 0, 0, 9>>, <<170, 1, 3, 1, 2, 137>>,
    <<58, 8, 1, 0, 0, 0, 2, 0, 0, 0>>, <<146, 1, 4, 11, 10, 1, 255>> }

Pieces == Scalars \cup Delimiteds \cup GroupTags \cup Junk

\* The pieces every combination of options is tried on.
CorePieces ==
  { <<8, 1>>, <<8, 129, 0>>, <<13>> \o F32(<<0, 16320, 0, 0>>), <<10, 2, 8, 1>>,
    <<10, 2, 104, 105>>, <<10, 1, 255>>, <<11>>, <<12>>, <<20>>, <<0>>, <<255>> }

RECURSIVE Flatten(_)
Flatten(ps) == IF ps = <<>> THEN <<>> ELSE ps[1] \o Flatten(Tail(ps))

\* A piece of any kind, and core pieces after it.
WriteInputs ==
  { Flatten(ps) : ps \in UNION { { <<p>> \o t : p \in Pieces, t \in [1..k -> CorePieces] } :
                                   k \in 0..(MaxFields - 1) } }
  \cup {<<>>} \cup LongInputs

CoreInputs ==
  { Flatten(ps) : ps \in UNION { [1..k -> CorePieces] : k \in 1..MaxFields } }
  \cup LongInputs

\* WriterOptions
WriterOptions(quoted, messages, groups, wireTypes, prefixes, schema, fieldNames, enumNames) ==
  [NoQuotedStrings |-> quoted, AllFieldsAreMessages |-> messages, NoGroups |-> groups,
   ExplicitWireTypes |-> wireTypes, ExplicitLengthPrefixes |-> prefixes,
   Schema |-> schema, PrintFieldNames |-> fieldNames, PrintEnumNames |-> enumNames]

\* Every combination of the five flags, with the schema and without.
AllOptions ==
  { WriterOptions(a, b, c, d, e, s, FALSE, FALSE) :
      a \in BOOLEAN, b \in BOOLEAN, c \in BOOLEAN, d \in BOOLEAN, e \in BOOLEAN,
      s \in {NilDesc, "TestAllTypes"} }

\* The options every input is tried on: none, the schema with its names,
\* and each of the flags with the schema.
FewOptions ==
  { NoOptions,
    WriterOptions(FALSE, FALSE, FALSE, FALSE, FALSE, "TestAllTypes", TRUE, TRUE),
    WriterOptions(FALSE, TRUE, FALSE, TRUE, FALSE, "TestAllTypes", FALSE, FALSE),
    WriterOptions(TRUE, FALSE, TRUE, FALSE, TRUE, "TestAllTypes", TRUE, FALSE) }

\* One field of the numbers 2 and 3, which TestAllTypes does not have, with
\* fields in its payload or group whose numbers TestAllTypes has.
UnknownFieldInputs ==
  { <<16, 1>>, <<21, 0, 0, 192, 63>>, <<18, 2, 8, 1>>, <<18, 2, 40, 3>>,
    <<18, 2, 104, 1>>, <<18, 3, 168, 1, 1>>, <<18, 4, 18, 2, 8, 1>>,
    <<19, 8, 1, 20>>, <<19, 40, 3, 20>>, <<27, 104, 1>> }

\* The schema with and without the names of fields and of enum values.
SchemaOptions ==
  { WriterOptions(FALSE, FALSE, FALSE, FALSE, FALSE, s, n, e) :
      s \in {NilDesc, "TestAllTypes"}, n \in BOOLEAN, e \in BOOLEAN }

RoundInit ==
  /\ CodecIdle
  /\ ScanIdle
  /\ \/ given \in WriteInputs /\ options \in FewOptions
     \/ given \in CoreInputs /\ options \in AllOptions
     \/ given \in UnknownFieldInputs /\ options \in SchemaOptions
  /\ unread = given
  /\ writer = WriterFor(options)
  /\ printed = <<>>
  /\ wpc = IF given = <<>> THEN "finish" ELSE "fields"

SpecRound == RoundInit /\ [][RoundNext]_vars

----------------------------------------------------------------------------
(* C1 *)

\* C1: for every input and every combination of options, Exec on the text
\* Write returned succeeds and returns exactly the bytes given to Write.
C1_RoundTrip ==
  (wpc = "written" /\ ret.state = "returned") =>
    (ret.err = NoError /\ ret.out = given)

----------------------------------------------------------------------------
(* C2 *)

\* The hex literals that spell bs and nothing else, each on a line of its
\* own from the first column on, 40 bytes to a literal: text is as long as
\* the digits, backticks and line ends of them, every line of it begins and
\* ends with a backtick, and the digits of byte i stand where the i - 1 bytes
\* before it and the literals before it leave them.
IsHexLiterals(text, bs) ==
  LET rows == (Len(bs) + 39) \div 40
      digits == B("0123456789abcdef")
      at(i) == (2 * (i - 1)) + (3 * ((i - 1) \div 40)) + 2
      first(k) == at((40 * (k - 1)) + 1) - 1
      last(k) == at(IF 40 * k < Len(bs) THEN 40 * k ELSE Len(bs)) + 2
  IN  /\ Len(text) = (2 * Len(bs)) + (3 * rows)
      /\ \A i \in 1..Len(bs) :
           /\ text[at(i)] = digits[(bs[i] \div 16) + 1]
           /\ text[at(i) + 1] = digits[(bs[i] % 16) + 1]
      /\ \A k \in 1..rows :
           /\ text[first(k)] = chBacktick
           /\ text[last(k)] = chBacktick
           /\ text[last(k) + 1] = chNewline

\* C2: Write never panics, whatever the bytes and the options, and the text
\* it returns ends with the bytes the top-level loop did not consume, as
\* hex literals on lines of their own.
C2_WriteNeverFails ==
  /\ wpc # "panicked"
  /\ writer.panic = ""
  /\ wpc = "written" =>
       LET tail == (2 * Len(unread)) + (3 * ((Len(unread) + 39) \div 40))
           head == Len(printed) - tail
       IN  /\ head >= 0
           /\ head > 0 => printed[head] = chNewline
           /\ IsHexLiterals(SubSeq(printed, head + 1, Len(printed)), unread)
           /\ unread = SubSeq(given, (Len(given) - Len(unread)) + 1, Len(given))

\* Write has returned for an SGROUP left open, a LEN field in it and a byte
\* no field begins with: the group was reset and the byte is the last line.
C2_Witness ==
  /\ wpc = "written"
  /\ given = <<11, 10, 1, 255, 0>>
  /\ unread = <<0>>
  /\ writer.groups # <<>>
  /\ writer.blocks = <<>>
  /\ printed = B("1:SGROUP") \o <<chNewline>> \o B("1: {") \o <<chBacktick>> \o B("ff")
               \o <<chBacktick>> \o B("}") \o <<chNewline, chBacktick>> \o B("00")
               \o <<chBacktick, chNewline>>

\* Write has returned with 41 bytes left: a literal of 40 bytes and one of 1.
C2_TwoLiterals == wpc = "written" /\ Len(unread) = 41 /\ Len(given) = 43

----------------------------------------------------------------------------
(* Reference definitions the assembler claims are stated with.  They look  *)
(* at one step of Exec: the token asked for in the step is the lexeme      *)
(* lexemes[lexIdx'], or the end of input past the last lexeme.             *)

\* bs is the varint of the word v made extra bytes longer: as many bytes as
\* v needs plus extra, the continuation bit on all but the last, and the
\* seven-bit groups writing v.
IsVarintOf(bs, v, extra) ==
  /\ Len(bs) = CanonicalLen(v) + extra
  /\ FirstTerminator(bs) = Len(bs)
  /\ Base128(bs, Len(bs)) = [v |-> v, carry |-> 0]

EofLx == Lx(<<>>, "eof")

\* The lexeme scanned in the step.
StepLx == IF lexIdx' <= Len(lexemes) THEN lexemes[lexIdx'] ELSE EofLx

\* A step of a running Exec.
Stepped == ret.state = "running" /\ lexIdx' = lexIdx + 1

\* The step made Exec fail, with no output.
StepFails == ret'.state = "returned" /\ ret'.err # NoError /\ ret'.out = <<>>

\* The step closed a block: the innermost exec returned to its caller.
StepCloses == ret'.state = "running" /\ Len(frames') < Len(frames)

\* After the step, the output that continues the innermost frame's: what Exec
\* returned, the same frame's output, or, the block closed, the end of the
\* caller's output, as long as the block's.
OutAfter ==
  IF ret'.state # "running" THEN ret'.out
  ELSE IF StepCloses
  THEN LET grown == frames'[Len(frames')].out
       IN  SubSeq(grown, Len(grown) - Len(Top.out) + 1, Len(grown))
  ELSE frames'[Len(frames)].out

\* What the step appended to the innermost frame's output.
Appended == SubSeq(OutAfter, Len(Top.out) + 1, Len(OutAfter))

\* The N of the long-form:N that is the lexeme before lexeme i, 0 without.
ModifierBefore(i) ==
  IF i >= 2 /\ lexemes[i - 1].class = "longform" THEN lexemes[i - 1].length ELSE 0

\* The word of a tag: n * 8 + w, with what left 64 bits.
TagWord(n, w) == U64MulAdd(n, 8, w)

\* How many blocks are open after the first k lexemes.
Depth(k) ==
  Cardinality({j \in 1..k : lexemes[j].class = "lcurly"})
  - Cardinality({j \in 1..k : lexemes[j].class = "rcurly"})

\* The `{` that the `}` at lexeme i closes.
MatchOpen(i) ==
  SetMax({j \in 1..(i - 1) : lexemes[j].class = "lcurly" /\ Depth(j) = Depth(i - 1)})

IsFieldNumber(n) == U64Less(U64Zero, n) /\ ~U64Less(MaxFieldNumber, n)

----------------------------------------------------------------------------
(* C5 *)

\* C5: whenever Exec fails it returns no output bytes, and the error is a
\* ParseError, the kind of error that carries the Position, for every kind
\* of failure.
C5_FailureIsParseError ==
  (ret.state = "returned" /\ ret.err # NoError) =>
    (ret.out = <<>> /\ ret.err.kind = "ParseError")

----------------------------------------------------------------------------
(* C6 *)

\* The step scans an explicit tag lexeme right with no long-form before it:
\* Exec goes on, what it had emitted stays, and what it appends is the
\* varint of n * 8 + w, a word of 64 bits.
TagEmitted(lx) ==
  /\ ret'.state = "running"
  /\ SubSeq(OutAfter, 1, Len(Top.out)) = Top.out
  /\ TagWord(lx.n, lx.w).carry = 0
  /\ IsVarintOf(Appended, TagWord(lx.n, lx.w).v, 0)

\* C6 as stated: for every field number n >= 1 and wire type w in 0..7 the
\* tag n:W emits exactly the varint of (n << 3) | w; a wire type above 7 or
\* an unknown name is an error.
C6_EveryFieldNumber ==
  [][Stepped =>
       /\ (StepLx.class = "tag" /\ U64Less(U64Zero, StepLx.n)
           /\ ModifierBefore(lexIdx') = 0) => TagEmitted(StepLx)
       /\ StepLx.class = "badtag" => StepFails]_vars

\* C6, amended: the same for the field numbers 1 .. 2^61 - 1.
C6_FieldNumbersThatFit ==
  [][Stepped =>
       /\ (StepLx.class = "tag" /\ IsFieldNumber(StepLx.n)
           /\ ModifierBefore(lexIdx') = 0) => TagEmitted(StepLx)
       /\ StepLx.class = "badtag" => StepFails]_vars

\* The largest field number with wire type I32 assembled alone.
C6_Witness ==
  /\ lexemes = <<TagLx(MaxFieldNumber, "I32", 5, "tag")>>
  /\ ret.state = "returned" /\ ret.err = NoError
  /\ ret.out = <<253, 255, 255, 255, 255, 255, 255, 255, 255, 1>>

----------------------------------------------------------------------------
(* C7 *)

\* The wire type the language infers from the token after the tag.
InferredWireType(class) ==
  IF class \in {"i32", "float32", "inf32"} THEN 5
  ELSE IF class \in {"i64", "float64", "inf64"} THEN 1
  ELSE IF class = "lcurly" THEN 2
  ELSE 0

\* The inferred tag whose wire type the step decides: the lexeme scanned
\* last, or the one before a long-form:N scanned last; 0 when there is none.
PendingTag ==
  IF lexIdx >= 1 /\ lexemes[lexIdx].class = "itag" THEN lexIdx
  ELSE IF lexIdx >= 2 /\ lexemes[lexIdx].class = "longform"
          /\ lexemes[lexIdx - 1].class = "itag"
  THEN lexIdx - 1
  ELSE 0

\* The bytes of the pending tag after the step.  Before the step they are
\* the last bytes of the innermost frame's output, as many as its varint has.
PendingTagBytes ==
  LET tag == lexemes[PendingTag]
      size == CanonicalLen(TagWord(tag.n, 0).v) + ModifierBefore(PendingTag)
  IN  SubSeq(OutAfter, Len(Top.out) - size + 1, Len(Top.out))

\* C7: when a step that does not fail scans the token after an inferred tag
\* n: (a long-form:N may stand between them), the tag's bytes are from then
\* on the varint of n * 8 + w, w being 5 after an i32 integer, i32 float or
\* inf32, 1 after an i64 integer, another float or inf64, 2 after `{`, and 0
\* after anything else, the end of input included; this for one-byte tags,
\* longer tags and tags made longer by a long-form:N before them.
C7_InferredWireType ==
  [][(Stepped /\ PendingTag # 0 /\ ~StepFails) =>
       IsVarintOf(PendingTagBytes,
                  TagWord(lexemes[PendingTag].n, InferredWireType(StepLx.class)).v,
                  ModifierBefore(PendingTag))]_vars

\* A two-byte tag before an i32 float: 300 * 8 + 5, then 1.5 as a float32.
C7_Witness ==
  /\ Input = B("300: 1.5i32")
  /\ ret.state = "returned" /\ ret.err = NoError
  /\ ret.out = <<229, 18, 0, 0, 192, 63>>

----------------------------------------------------------------------------
(* C8 *)

\* C8: when a step closes a block, the caller's output grows by the varint
\* of the length of the block's output, N bytes longer when long-form:N is
\* the lexeme before the block's `{`, and then by the block's output; the
\* caller's earlier output stays.  The caller's output being the body of the
\* block around it, that block's length counts both.
C8_BlockLengthPrefix ==
  [][(Stepped /\ StepCloses) =>
       LET caller == frames[Len(frames) - 1]
           grown == frames'[Len(frames')].out
           body == Top.out
           prefix == SubSeq(grown, Len(caller.out) + 1, Len(grown) - Len(body))
       IN  /\ StepLx.class = "rcurly"
           /\ SubSeq(grown, 1, Len(caller.out)) = caller.out
           /\ SubSeq(grown, Len(grown) - Len(body) + 1, Len(grown)) = body
           /\ IsVarintOf(prefix, U64(Len(body)), ModifierBefore(MatchOpen(lexIdx')))]_vars

\* A block in a block with a long-form:1 before the outer one: the inner
\* block is its prefix 01 and its body 05, the outer prefix counts both and
\* is one byte longer.
C8_Witness ==
  /\ Input = B("long-form:1 { # to the end of the line\n\t{\n5 } # to the end of the line\n\t}")
  /\ ret.state = "returned" /\ ret.err = NoError
  /\ ret.out = <<130, 0, 1, 5>>

----------------------------------------------------------------------------
(* C9 *)

\* The kinds of lexeme a long-form:N may stand before, the block aside.
VarintClasses == {"int", "zigzag", "tag", "itag"}

\* The word a varint-encoded lexeme puts on the wire.
WireWord(lx) ==
  IF lx.class \in {"tag", "itag"} THEN TagWord(lx.n, lx.w).v ELSE lx.wire

----------------------------------------------------------------------------
(* C10 *)

\* C10: assembling n: !{ } succeeds and emits the tag n * 8 + 3 and then the
\* tag n * 8 + 4.
C10_EmptyGroup ==
  (/\ ret.state = "returned" /\ Len(lexemes) = 3
   /\ lexemes[1].class = "itag" /\ lexemes[2].class = "group"
   /\ lexemes[3].class = "rcurly") =>
    LET size == CanonicalLen(TagWord(lexemes[1].n, 3).v)
    IN  /\ ret.err = NoError
        /\ Len(ret.out) = 2 * size
        /\ IsVarintOf(SubSeq(ret.out, 1, size), TagWord(lexemes[1].n, 3).v, 0)
        /\ IsVarintOf(SubSeq(ret.out, size + 1, 2 * size),
                      TagWord(lexemes[1].n, 4).v, 0)

----------------------------------------------------------------------------
(* C11 *)

\* The n bytes of a word from the lowest on.
LittleEndian(word, n) ==
  [i \in 1..n |-> (word[((i - 1) \div 2) + 1] \div (IF i % 2 = 1 THEN 1 ELSE 256)) % 256]

\* C11: a fixed-width integer literal alone is accepted exactly when its
\* value lies in [-2^31, 2^32 - 1] (i32) or in [-2^63, 2^64 - 1] (i64); when
\* accepted Exec returns the 4 or 8 little-endian bytes of the value modulo
\* 2^32 or 2^64, otherwise Exec fails.
C11_FixedWidthRange ==
  (ret.state = "returned" /\ Len(lexemes) = 1 /\ lexemes[1].class = "fixed") =>
    IF lexemes[1].length = 1
    THEN ret.err = NoError /\ ret.out = LittleEndian(lexemes[1].wire, lexemes[1].w \div 8)
    ELSE ret.err # NoError

\* The same for the literals both the claim and strconv.ParseInt take: the
\* i32 values in [-2^31, 2^32 - 1] and below -2^32 or above 2^32 - 1, the i64
\* values whose magnitude is below 2^63 or above 2^64.
C11_FixedWidthWhereParsed ==
  (/\ ret.state = "returned" /\ Len(lexemes) = 1 /\ lexemes[1].class = "fixed"
   /\ lexemes[1].text \notin
        {B("-2147483649i32"), B("-4294967296i32"), B("9223372036854775808i64"),
         B("18446744073709551615i64"), B("-9223372036854775808i64")}) =>
    IF lexemes[1].length = 1
    THEN ret.err = NoError /\ ret.out = LittleEndian(lexemes[1].wire, lexemes[1].w \div 8)
    ELSE ret.err # NoError

----------------------------------------------------------------------------
(* C12 *)

\* C12: a tag expression whose field number is above 2^61 - 1 makes Exec
\* fail, and the tag of the field number 2^61 - 1 is emitted as a varint of
\* ten bytes.
C12_FieldNumberTooBig ==
  [][(Stepped /\ StepLx.class = "tag" /\ ModifierBefore(lexIdx') = 0) =>
       /\ U64Less(MaxFieldNumber, StepLx.n) => StepFails
       /\ StepLx.n = MaxFieldNumber =>
            /\ ret'.state = "running"
            /\ Len(Appended) = 10
            /\ IsVarintOf(Appended, TagWord(StepLx.n, StepLx.w).v, 0)]_vars

----------------------------------------------------------------------------
(* C13 *)

\* The step scans a zigzag literal and appends the varint of its zigzag word,
\* as many bytes longer as the long-form:N before it says.
ZigzagEmitted ==
  /\ ret'.state = "running"
  /\ IsVarintOf(Appended, StepLx.wire, ModifierBefore(lexIdx'))

\* C13: for every x that fits a signed 64-bit word the literal xz is
\* appended as the canonical varint of ((x << 1) XOR (x >> 63)), and N bytes
\* longer after long-form:N.
C13_ZigzagEveryInt64 ==
  [][(Stepped /\ StepLx.class \in {"zigzag", "zigzagmin"}) => ZigzagEmitted]_vars

----------------------------------------------------------------------------
(* C14 *)

\* C14: in a quoted string a backslash and one to three octal digits emit
\* the byte of that value, a fourth digit or another character after them
\* being an ordinary character, and Exec fails where the value is above 255.
C14_OctalEscapes ==
  [][(Stepped /\ StepLx.class = "octal") =>
       IF StepLx.length = 1
       THEN ret'.state = "running" /\ Appended = StepLx.wire
       ELSE StepFails]_vars

----------------------------------------------------------------------------
(* C15 *)

WireTypeNames ==
  {B("VARINT"), B("I64"), B("LEN"), B("SGROUP"), B("EGROUP"), B("I32")}

\* The colons of the tags of a text: those that follow a digit.
TagColons(text) == {i \in 2..Len(text) : text[i] = 58 /\ isDigit(text[i - 1])}

\* A wire-type name and nothing more of a word stands after index i.
WireTypeAfter(text, i) ==
  \E name \in WireTypeNames :
    /\ hasAt(text, i + 1, name)
    /\ LET after == i + Len(name) + 1
       IN  after > Len(text) \/ text[after] \in {32, chNewline}

\* The two bytes of the group syntax stand at index i.
GroupSyntaxAt(text, i) == hasAt(text, i, <<33, 123>>)

\* C15: with ExplicitWireTypes every tag of the output is N: and exactly the
\* name of a wire type, and the group syntax is nowhere in it.
C15_ExplicitWireTypes ==
  (wpc = "written" /\ options.ExplicitWireTypes) =>
    /\ \A i \in TagColons(printed) : WireTypeAfter(printed, i)
    /\ \A i \in 1..Len(printed) : ~GroupSyntaxAt(printed, i)

----------------------------------------------------------------------------
(* C16 *)

\* The offset in Input of the first byte of lexeme i.
LexemeOffset(i) ==
  IF i = 1 THEN 0
  ELSE Len(Join(SubSeq(lexemes, 1, i - 1)))
       + Len(Separators[((i - 2) % Len(Separators)) + 1])

\* The `{` of the text that no `}` closes.
UnclosedOpens ==
  {j \in 1..Len(lexemes) :
     /\ lexemes[j].class = "lcurly"
     /\ \A m \in j..Len(lexemes) : Depth(m) >= Depth(j)}

\* The step fails with a ParseError of this message.
StepFailsWith(msg) ==
  StepFails /\ ret'.err.kind = "ParseError" /\ ret'.err.msg = msg

\* The step reads the end of the text in an open block, no long-form:N
\* pending.
EndsInBlock ==
  StepLx.class = "eof" /\ Depth(Len(lexemes)) > 0 /\ ModifierBefore(lexIdx') = 0

\* What C16 says of one step but for the position: a `}` with no block open
\* fails, the end of the text in an open block fails, and no other end of
\* the text is a success.
UnbalancedFails ==
  /\ (StepLx.class = "rcurly" /\ Depth(lexIdx) = 0 /\ ModifierBefore(lexIdx') = 0)
       => StepFailsWith("unmatched '}'")
  /\ EndsInBlock => StepFailsWith("unmatched '{'")
  /\ (ret'.state = "returned" /\ ret'.err = NoError) => Depth(Len(lexemes)) = 0

\* C16: Exec succeeds only where the curlies are balanced; a `}` with no
\* block open fails as unmatched, and the end of the text in an open block
\* fails as unmatched at the position of the innermost `{` left open.
C16_UnmatchedCurlies ==
  [][Stepped =>
       /\ UnbalancedFails
       /\ EndsInBlock
            => ret'.err.Pos.Offset = LexemeOffset(SetMax(UnclosedOpens))]_vars

\* What the code does: the position reported is that of the byte after the
\* innermost `{` left open.
C16_PositionAfterCurly ==
  [][Stepped =>
       /\ UnbalancedFails
       /\ EndsInBlock
            => ret'.err.Pos.Offset = LexemeOffset(SetMax(UnclosedOpens)) + 1]_vars

----------------------------------------------------------------------------
(* C17 *)

\* The options without the schema.
SchemaFree(opts) == [opts EXCEPT !.Schema = NilDesc]

----------------------------------------------------------------------------
(* C18 *)

\* The round of the loop of Write that this step is decodes a LEN field.
WritesLenField ==
  /\ wpc = "fields"
  /\ wpc' # wpc \/ unread' # unread
  /\ decodeVarint(unread).ok
  /\ decodeVarint(unread).value[1] % 8 = 2

\* The lines and the blocks that were there before the step are as they
\* were.
LinesBeforeKept ==
  /\ Len(writer'.lines) >= Len(writer.lines)
  /\ \A k \in 1..Len(writer.lines) : writer'.lines[k] = writer.lines[k]
  /\ writer'.blocks = writer.blocks

\* C18: the payload of a LEN field is decoded on a group stack of its own:
\* when decodeField returns, accepted or rolled back, the groups open are
\* those open before the field, and no line written before the field, the
\* opener of an outer group among them, has been touched.
C18_GroupsOfPayloadApart ==
  [][WritesLenField => (writer'.groups = writer.groups /\ LinesBeforeKept)]_vars

\* An EGROUP in the payload of a LEN field inside an open group was written
\* as an EGROUP of no group, and the EGROUP after the payload closed the
\* group.
C18_Witness ==
  /\ wpc = "written"
  /\ given = <<11, 10, 1, 12, 12>>
  /\ options = NoOptions
  /\ printed = B("1: !{1: {1:EGROUP}}") \o <<chNewline>>

----------------------------------------------------------------------------
(* C19 *)

\* The round of the loop of Write that this step is reads an EGROUP tag
\* with a group open that pushed a descriptor.
ClosesGroupWithDesc ==
  /\ wpc = "fields"
  /\ wpc' # wpc \/ unread' # unread
  /\ decodeVarint(unread).ok
  /\ decodeVarint(unread).value[1] % 8 = 4
  /\ writer.groups # <<>>
  /\ writer.groups[Len(writer.groups)].hasDesc

\* C19: the descriptor stack after a LEN field is the stack before it,
\* whatever the payload and whether it was accepted as a message or not; the
\* descriptor an SGROUP pushed is gone when an EGROUP closes the group, and
\* when the groups left open are reset.
C19_DescriptorStackBalanced ==
  [][/\ WritesLenField => writer'.descs = writer.descs
     /\ ClosesGroupWithDesc =>
          writer'.descs = SubSeq(writer.descs, 1, Len(writer.descs) - 1)
     /\ (wpc = "finish" /\ wpc' = "written") =>
          writer'.descs = WriterFor(options).descs]_vars

\* The part of C19 the code keeps: the EGROUP that closes a group removes
\* the descriptor the group pushed, and a LEN field whose payload leaves no
\* group with a descriptor open leaves the stack as it was.
C19_BalancedWhereGroupsClosed ==
  [][/\ (WritesLenField /\ \A i \in 1..Len(unread) : unread[i] # 11)
          => writer'.descs = writer.descs
     /\ ClosesGroupWithDesc =>
          writer'.descs = SubSeq(writer.descs, 1, Len(writer.descs) - 1)]_vars

----------------------------------------------------------------------------
(* C20 *)

\* The default mode of groups.
DefaultGroups == ~options.ExplicitWireTypes /\ ~options.NoGroups

\* The round of the loop of Write that this step is reads an EGROUP tag.
ReadsEGroup ==
  /\ wpc = "fields"
  /\ wpc' # wpc \/ unread' # unread
  /\ decodeVarint(unread).ok
  /\ decodeVarint(unread).value[1] % 8 = 4
  /\ U64Shr(decodeVarint(unread).value, 3) # U64Zero

EndsWith(text, t) ==
  Len(text) >= Len(t) /\ SubSeq(text, Len(text) - Len(t) + 1, Len(text)) = t

\* The tag of field number n and what is written after its colon.
TagThen(n, after) == FormatUint(n) \o B(":") \o B(after)

\* The step leaves the stack of groups and the blocks without their tops.
PopsGroup ==
  /\ writer'.groups = SubSeq(writer.groups, 1, Len(writer.groups) - 1)
  /\ writer'.blocks = SubSeq(writer.blocks, 1, Len(writer.blocks) - 1)

\* The group of field n whose opener is line k is closed by the EGROUP read:
\* the opener stays n: !{ and the text ends in the } of the EGROUP.
ClosedAsGroup(n, k) ==
  /\ EndsWith(writer.lines[k].text, TagThen(n, " !{"))
  /\ HasPrefix(writer'.lines[k].text, writer.lines[k].text)
  /\ EndsWith(writer'.lines[Len(writer'.lines)].text, B("}"))

\* The opener, line k of the group of field n, is rewritten to n:SGROUP and
\* its indentation undone.
RewrittenAsTag(n, k) ==
  /\ writer'.lines[k].text =
       SubSeq(writer.lines[k].text, 1, Len(writer.lines[k].text) - 3) \o B("SGROUP")
  /\ EndsWith(writer'.lines[k].text, TagThen(n, "SGROUP"))
  /\ writer'.lines[k].indent = writer.lines[k].indent - 1

\* The EGROUP of field m read is written as the tag m:EGROUP.
WrittenAsTag(m) ==
  EndsWith(writer'.lines[Len(writer'.lines)].text, TagThen(m, "EGROUP"))

\* What an EGROUP of field m does in the default mode.
EGroupStep(m) ==
  IF writer.groups = <<>>
  THEN WrittenAsTag(m) /\ writer'.groups = <<>> /\ writer'.blocks = writer.blocks
  ELSE LET last == writer.groups[Len(writer.groups)]
           opener == writer.blocks[Len(writer.blocks)].start
       IN  /\ PopsGroup
           /\ IF last.number = m
              THEN ClosedAsGroup(m, opener)
              ELSE RewrittenAsTag(last.number, opener) /\ WrittenAsTag(m)

\* The end of Write in the default mode: the opener of every group still
\* open is rewritten.
EndOfInputStep ==
  \A k \in 1..Len(writer.groups) :
    RewrittenAsTag(writer.groups[k].number, writer.blocks[k].start)

\* How many { less } the first i bytes of text hold.
BraceDepth(text, i) ==
  Cardinality({j \in 1..i : text[j] = 123}) - Cardinality({j \in 1..i : text[j] = 125})

\* Every !{ of the text has its }.
GroupSyntaxClosed(text) ==
  \A i \in 1..Len(text) :
    GroupSyntaxAt(text, i) =>
      \E j \in (i + 2)..Len(text) :
        text[j] = 125 /\ BraceDepth(text, j) = BraceDepth(text, i)

\* C20: in the default mode an EGROUP pops the innermost open group; the
\* group is written n: !{ ... } exactly when the numbers are equal, and
\* otherwise its opener becomes n:SGROUP, unindented, and the EGROUP
\* m:EGROUP; an EGROUP with no group open is m:EGROUP; the groups open at the
\* end are rewritten to n:SGROUP; every !{ of the text returned has its }.
C20_GroupMatching ==
  /\ [][/\ (DefaultGroups /\ ReadsEGroup)
             => EGroupStep(U64Shr(decodeVarint(unread).value, 3))
        /\ (DefaultGroups /\ wpc = "finish" /\ wpc' = "written") => EndOfInputStep]_vars
  /\ []((DefaultGroups /\ wpc = "written") => GroupSyntaxClosed(printed))

\* Two groups of field 1 closed by their EGROUPs, and an EGROUP more.
C20_Witness ==
  /\ wpc = "written"
  /\ given = <<11, 11, 12, 12, 12>>
  /\ options = NoOptions
  /\ printed = B("1: !{1: !{}}") \o <<chNewline>> \o B("1:EGROUP") \o <<chNewline>>

----------------------------------------------------------------------------
(* C21 *)

\* The tag the round of Write's loop reads, its descriptor, and the length
\* after it.
TagRead == decodeVarint(unread)

FdRead == fieldDescriptor(writer, U64Shr(TagRead.value, 3))

LenRead == decodeVarint(TagRead.rest)

\* The payload of the LEN field read.
PayloadRead == SubSeq(LenRead.rest, 1, U64ToInt(LenRead.value))

\* The step decodes a LEN field whose payload is tried as a message: the
\* field has no descriptor or is a message, and its payload is all there.
TriesMessage ==
  /\ WritesLenField
  /\ FdRead.kind \in {"none", "MessageKind", "GroupKind"}
  /\ LenRead.ok
  /\ ~U64Less(U64(Len(LenRead.rest)), LenRead.value)

\* The writer at the mark: the tag, the wire type and the opening of the
\* block written (lines 289-302, 381-416).
AtMark ==
  startDelimited(
    Writef(IF options.ExplicitWireTypes \/ options.ExplicitLengthPrefixes
           THEN Writef(fieldTag(NewLine(writer), options, TagRead, FdRead), B("LEN"))
           ELSE fieldTag(NewLine(writer), options, TagRead, FdRead), <<32>>),
    options, LenRead)

\* What the loop over the payload's fields leaves.
Speculated ==
  decodeFields([AtMark EXCEPT !.groups = <<>>,
                              !.descs = IF FdRead # NilFd THEN Append(@, FdRead.message)
                                        ELSE @],
               options, PayloadRead)

\* The speculation is to be kept.
KeepsMessage ==
  \/ Speculated.src = <<>>
  \/ options.AllFieldsAreMessages /\ Len(Speculated.src) < Len(PayloadRead)

\* The lines after the step are those of the speculation, its open groups
\* reset, with the rest of the payload in hex and the block ended.
MessageKept ==
  writer'.lines =
    decodeBytes(resetGroups(Speculated.w, options, Len(Speculated.w.groups)),
                options, Speculated.src).lines

\* The lines after the step are those at the mark with the whole payload as a
\* quoted string or in hex and the block ended.
RolledBack == writer'.lines = decodeUtf8(AtMark, options, PayloadRead).lines

\* C21: the rendering of a payload as a message is kept exactly when all of
\* the payload was consumed, or, with AllFieldsAreMessages, some of it, the
\* rest then following in hex in the same block; otherwise the printer is
\* back at the mark and the whole payload is a quoted string or hex.
C21_SpeculationKeptOrRewound ==
  [][TriesMessage =>
       /\ KeepsMessage => MessageKept
       /\ ~KeepsMessage => RolledBack
       /\ writer'.blocks = writer.blocks]_vars

\* With AllFieldsAreMessages a payload of an EGROUP tag and a byte that is no
\* field is kept as a message with the byte in hex; the field after it has a
\* payload of which nothing is consumed, and is rolled back.
C21_Witness ==
  /\ wpc = "written"
  /\ given = <<10, 2, 12, 255, 10, 1, 255>>
  /\ options = WriterOptions(FALSE, TRUE, FALSE, FALSE, FALSE, NilDesc, FALSE, FALSE)
  /\ printed = B("1: {") \o <<chNewline>> \o B("  1:EGROUP") \o <<chNewline>>
                 \o <<32, 32, chBacktick, 102, 102, chBacktick, chNewline>>
                 \o B("}") \o <<chNewline>>
                 \o B("1: {") \o <<chBacktick, 102, 102, chBacktick>> \o B("}")
                 \o <<chNewline>>

----------------------------------------------------------------------------
(* C22 *)

\* The bytes are one VARINT field and nothing more.
IsVarintField(bs) ==
  /\ decodeVarint(bs).ok
  /\ decodeVarint(bs).value[1] % 8 = 0
  /\ U64Shr(decodeVarint(bs).value, 3) # U64Zero
  /\ decodeVarint(decodeVarint(bs).rest).ok
  /\ decodeVarint(decodeVarint(bs).rest).rest = <<>>

\* The value and the extra bytes of the varint of a VARINT field.
VarintOf(bs) == decodeVarint(decodeVarint(bs).rest)

\* The text written for the bytes given was assembled again.
Reassembled == wpc = "written" /\ ret.state = "returned"

\* C22: the text writer.decodeVarint writes for a varint, of every value,
\* every number of extra bytes and every kind of field, is accepted by the
\* Scanner after the tag and assembles to the bytes of the varint.
C22_VarintTextReassembles ==
  (Reassembled /\ IsVarintField(given)) => (ret.err = NoError /\ ret.out = given)

\* The same for the varints whose text the Scanner parses: no true or false
\* after long-form:N, and a decimal below 2^63 in magnitude.
C22_ReassemblesWhereParsed ==
  (/\ Reassembled
   /\ IsVarintField(given)
   /\ ~(VarintOf(given).extraBytes > 0
        /\ fieldDescriptor(WriterFor(options), U64Shr(decodeVarint(given).value, 3)).kind
             = "BoolKind"
        /\ U64Less(VarintOf(given).value, U64(2)))
   /\ VarintOf(given).value \notin {U64Max, <<0, 0, 0, 32768>>})
    => (ret.err = NoError /\ ret.out = given)

----------------------------------------------------------------------------
(* C23 *)

ModifierMessage == "length modifier was not followed by '{' or varint"

\* The step fails because the long-form:N before the lexeme scanned is
\* followed by neither a `{` nor a varint.
ModifierRefused ==
  /\ Stepped
  /\ StepFailsWith(ModifierMessage)
  /\ ModifierBefore(lexIdx') > 0

\* C23: the error of a long-form:N that is followed by neither `{` nor a
\* varint carries the position of the long-form:N, wherever it stands.
C23_ModifierErrorPosition ==
  [][ModifierRefused => ret'.err.Pos.Offset = LexemeOffset(lexIdx' - 1)]_vars

\* What the code does: the position is that of the first byte of the text.
C23_ModifierErrorAtStart ==
  [][ModifierRefused => ret'.err.Pos = ZeroPosition]_vars

----------------------------------------------------------------------------
(* The Printer on its own: a caller that writes lines and blocks the way   *)
(* the writer does, one call of the Printer a step.                        *)

\* The most lines the caller has in the Printer, and the most blocks open.
MaxLines == 4

MaxBlocks == 2

\* The most lines and bytes of text together that the caller adds to.
MaxInk == 6

\* What the caller writes on a line, and remarks of it.
PrintTexts == {B("a"), B("bb")}

PrintRemarks == {B("r")}

\* The blocks of the writer: of a group or LEN field with its delimiters, of
\* a group without them, of a LEN field with its length written.
PrintBlocks == {BlockInfo(TRUE, 3, 1), BlockInfo(FALSE, 2, 1), BlockInfo(FALSE, 2, 0)}

\* The numbers of columns FoldIntoColumns is called with.
PrintCols == {1, 2}

\* The caller may call the Printer.
Printing == wpc = "printing" /\ writer.panic = ""

\* The bytes of text of the lines from index k on.
RECURSIVE textBytes(_, _)
textBytes(lines, k) ==
  IF k > Len(lines) THEN 0 ELSE Len(lines[k].text) + textBytes(lines, k + 1)

\* The lines and the bytes of text in the Printer.
Ink == Len(writer.lines) + textBytes(writer.lines, 1)

\* What a call of the Printer leaves besides the writer.
PrinterCall(w) ==
  /\ writer' = w
  /\ UNCHANGED <<given, options, unread, printed, wpc, codecVars, scanVars>>

PrinterNewLine ==
  /\ Printing
  /\ Len(writer.lines) < MaxLines
  /\ Ink < MaxInk
  /\ PrinterCall(NewLine(writer))

\* Write on a line that has no text yet.
PrinterWrite ==
  /\ Printing
  /\ writer.lines # <<>>
  /\ writer.lines[Len(writer.lines)].text = <<>>
  /\ Ink < MaxInk
  /\ \E text \in PrintTexts : PrinterCall(Writef(writer, text))

\* Remark on a line that has no remark yet.
PrinterRemark ==
  /\ Printing
  /\ writer.lines # <<>>
  /\ writer.lines[Len(writer.lines)].remarks = <<>>
  /\ \E text \in PrintRemarks : PrinterCall(Remark(writer, text))

\* StartBlock on a line that begins no block yet.
PrinterStartBlock ==
  /\ Printing
  /\ writer.lines # <<>>
  /\ writer.lines[Len(writer.lines)].indent = 0
  /\ Len(writer.blocks) < MaxBlocks
  /\ \E bi \in PrintBlocks : PrinterCall(StartBlock(writer, bi))

PrinterEndBlock ==
  /\ Printing
  /\ writer.blocks # <<>>
  /\ PrinterCall(EndBlock(writer))

\* The lines after the start of the innermost block, all lines without one.
LinesInBlock ==
  IF writer.blocks = <<>> THEN Len(writer.lines)
  ELSE Len(writer.lines) - writer.blocks[Len(writer.blocks)].start

\* FoldIntoColumns on lines of the innermost block.
PrinterFoldIntoColumns ==
  /\ Printing
  /\ \E cols \in PrintCols, count \in 0..LinesInBlock :
       PrinterCall(FoldIntoColumns(writer, cols, count))

\* Finish, every block ended.
PrinterFinish ==
  /\ Printing
  /\ writer.blocks = <<>>
  /\ printed' = Finish(writer).out
  /\ wpc' = IF Finish(writer).panic # "" THEN "panicked" ELSE "printed"
  /\ UNCHANGED <<given, options, unread, writer, codecVars, scanVars>>

PrintNext ==
  \/ PrinterNewLine
  \/ PrinterWrite
  \/ PrinterRemark
  \/ PrinterStartBlock
  \/ PrinterEndBlock
  \/ PrinterFoldIntoColumns
  \/ PrinterFinish

\* A Printer with no line.
PrintInit ==
  /\ CodecIdle
  /\ ScanIdle
  /\ given = <<>> /\ options = NoOptions /\ unread = <<>>
  /\ writer = NewWriter(<<>>) /\ printed = <<>> /\ wpc = "printing"

SpecPrint == PrintInit /\ [][PrintNext]_vars

----------------------------------------------------------------------------
(* C24 *)

\* The step is a call of EndBlock.
EndsBlock == Printing /\ Len(writer'.blocks) < Len(writer.blocks)

\* The block ended, the index of its first line and its height.
EndedBlock == writer.blocks[Len(writer.blocks)]

BlockHeight == Len(writer.lines) - EndedBlock.start + 1

\* The lines of the block that carry remarks.
RemarkedLines ==
  {k \in EndedBlock.start..Len(writer.lines) : writer.lines[k].remarks # <<>>}

\* The folds counted on the lines from index k on.
RECURSIVE FoldCount(_)
FoldCount(k) ==
  IF k > Len(writer.lines) THEN 0 ELSE writer.lines[k].folds + FoldCount(k + 1)

\* The block is one to fold.
ShouldFold ==
  /\ BlockHeight >= 2
  /\ BlockHeight <= EndedBlock.HeightToFoldAt
  /\ Cardinality(RemarkedLines) <= 1
  /\ FoldCount(EndedBlock.start) <= MaxFolds

\* The texts of the lines from k on, each after a space, but after none
\* behind the first line and before the last line of a block with delimiters.
RECURSIVE JoinedFrom(_)
JoinedFrom(k) ==
  IF k > Len(writer.lines) THEN <<>>
  ELSE (IF EndedBlock.HasDelimiters /\ (k = EndedBlock.start + 1 \/ k = Len(writer.lines))
        THEN <<>> ELSE <<32>>)
       \o writer.lines[k].text \o JoinedFrom(k + 1)

\* The lines before index k are as they were, indent aside.
SameLinesBefore(k) ==
  \A j \in 1..(k - 1) :
    /\ writer'.lines[j].text = writer.lines[j].text
    /\ writer'.lines[j].remarks = writer.lines[j].remarks

\* The block is one line now, with all its text in order and its remarks.
BlockFolded ==
  /\ Len(writer'.lines) = EndedBlock.start
  /\ writer'.lines[EndedBlock.start].text =
       writer.lines[EndedBlock.start].text \o JoinedFrom(EndedBlock.start + 1)
  /\ writer'.lines[EndedBlock.start].remarks =
       (IF RemarkedLines = {} THEN <<>>
        ELSE writer.lines[CHOOSE k \in RemarkedLines : TRUE].remarks)
  /\ SameLinesBefore(EndedBlock.start)

\* Every line is as it was, indent aside.
BlockKept ==
  /\ Len(writer'.lines) = Len(writer.lines)
  /\ SameLinesBefore(Len(writer.lines) + 1)

----------------------------------------------------------------------------
(* C25 *)

\* The index of the first byte of the line of text that byte j is on.
LineStart(text, j) ==
  SetMax({0} \cup {i \in 1..(j - 1) : text[i] = chNewline}) + 1

\* How many blocks folded onto its line the } at index j of text closes the
\* innermost of: the { before it on the line that no } before it closes.
FoldsNestedAt(text, j) ==
  Cardinality({i \in LineStart(text, j)..j : text[i] = 123})
  - Cardinality({i \in LineStart(text, j)..(j - 1) : text[i] = 125})

\* C25: no line of the text Write returns is the fold of more than MaxFolds
\* blocks nested in one another.
C25_MaxFoldsBoundsNesting ==
  wpc = "written" =>
    \A j \in 1..Len(printed) :
      printed[j] = 125 => FoldsNestedAt(printed, j) <= MaxFolds

----------------------------------------------------------------------------
(* C26 *)

\* The Printer called by a caller of its own and by Write.
PackedInit == PrintInit \/ RoundInit

PackedNext == PrintNext \/ RoundNext

SpecPacked == PackedInit /\ [][PackedNext]_vars

\* The last count lines of the lines given are the entries 1..count; entry i.
Entry(lines, count, i) == lines[Len(lines) - count + i]

\* The first entry of the run entry i is in: an entry with remarks is a run
\* alone, the entries between two of them are a run.
RunStart(lines, count, i) ==
  IF Entry(lines, count, i).remarks # <<>> THEN i
  ELSE SetMax({0} \cup {k \in 1..i : Entry(lines, count, k).remarks # <<>>}) + 1

\* The column of entry i in its run.
ColumnOf(lines, count, cols, i) == (i - RunStart(lines, count, i)) % cols

\* The width of the column of entry i: the widest entry of its run in it.
WidthOf(lines, count, cols, i) ==
  SetMax({RuneCount(Entry(lines, count, k).text) :
            k \in {x \in 1..count :
                     /\ RunStart(lines, count, x) = RunStart(lines, count, i)
                     /\ ColumnOf(lines, count, cols, x) = ColumnOf(lines, count, cols, i)}})

\* Entry i as it stands on its line: after one space unless it is first,
\* padded on the left to the width of its column.
Padded(lines, count, cols, i) ==
  (IF ColumnOf(lines, count, cols, i) = 0 THEN <<>> ELSE <<32>>)
  \o Spaces(WidthOf(lines, count, cols, i) - RuneCount(Entry(lines, count, i).text))
  \o Entry(lines, count, i).text

\* The entries that begin a line, and the one that begins line l of them.
Leaders(lines, count, cols) ==
  {i \in 1..count : ColumnOf(lines, count, cols, i) = 0}

LeaderOf(lines, count, cols, l) ==
  CHOOSE i \in Leaders(lines, count, cols) :
    Cardinality({k \in Leaders(lines, count, cols) : k <= i}) = l

\* The entries from i to last as they stand on one line.
RECURSIVE RowText(_, _, _, _, _)
RowText(lines, count, cols, i, last) ==
  IF i > last THEN <<>>
  ELSE Padded(lines, count, cols, i) \o RowText(lines, count, cols, i + 1, last)

\* The last entry of the line that entry i begins.
RowEnd(lines, count, cols, i) ==
  SetMin({count + 1} \cup {k \in Leaders(lines, count, cols) : k > i}) - 1

\* after is before with its last count lines folded into cols columns.
FoldedIntoColumns(before, after, cols, count) ==
  LET rows == Cardinality(Leaders(before, count, cols))
      kept == Len(before) - count
  IN  /\ Len(after) = kept + rows
      /\ \A k \in 1..kept : after[k] = before[k]
      /\ \A l \in 1..rows :
           LET first == LeaderOf(before, count, cols, l)
               last == RowEnd(before, count, cols, first)
           IN  /\ last - first + 1 <= cols
               /\ after[kept + l].text = RowText(before, count, cols, first, last)
               /\ after[kept + l].remarks = Entry(before, count, first).remarks
               /\ \A i \in (first + 1)..last : Entry(before, count, i).remarks = <<>>

\* The step decodes a LEN field of a packed kind, its payload all there.
DecodesPacked ==
  /\ WritesLenField
  /\ FdRead.kind \notin {"none", "MessageKind", "GroupKind", "StringKind", "BytesKind"}
  /\ LenRead.ok
  /\ ~U64Less(U64(Len(LenRead.rest)), LenRead.value)

\* The wire type of the values of a packed field of the kind.
PackedWire(kind) ==
  IF kind \in {"Fixed32Kind", "Sfixed32Kind", "FloatKind"} THEN 5
  ELSE IF kind \in {"Fixed64Kind", "Sfixed64Kind", "DoubleKind"} THEN 1
  ELSE 0

\* What the loop of decodePacked leaves: a line for each value decoded.
PackedValues == packedLoop(AtMark, options, PayloadRead, FdRead, PackedWire(FdRead.kind), 0)

\* C26: FoldIntoColumns(cols, n) puts the last n lines, in their order, on
\* lines of at most cols entries, a space between them, each padded on the
\* left to the width of its column; an entry with remarks ends the run before
\* it and stands with its remarks on a line of its own; the lines before the
\* n are as they were.  For a packed field n is the number of values
\* decoded, and the bytes not decoded follow in hex in the same block.
C26_FoldIntoColumns ==
  /\ [](\A cols \in PrintCols \cup {8}, count \in 0..LinesInBlock :
          FoldedIntoColumns(writer.lines,
                            FoldIntoColumns(writer, cols, count).lines, cols, count))
  /\ [][DecodesPacked =>
          /\ PackedValues.count = Len(PackedValues.w.lines) - Len(AtMark.lines)
          /\ FoldedIntoColumns(PackedValues.w.lines,
                               FoldIntoColumns(PackedValues.w, 8, PackedValues.count).lines,
                               8, PackedValues.count)
          /\ writer'.lines =
               decodeBytes(FoldIntoColumns(PackedValues.w, 8, PackedValues.count),
                           options, PackedValues.delimited).lines]_vars


C26_Witness ==
  /\ wpc = "written"
  /\ given = <<170, 1, 3, 1, 2, 137>>
  /\ options = WriterOptions(FALSE, TRUE, FALSE, TRUE, FALSE, "TestAllTypes", FALSE, FALSE)
  /\ printed = B("21:LEN {") \o <<chNewline>> \o B("  1 2") \o <<chNewline>>
                 \o B("  ") \o <<chBacktick>> \o B("89") \o <<chBacktick>> \o <<chNewline>>
                 \o B("}") \o <<chNewline>>

\* Two lines of one column, the narrower padded to the wider.
C26_PaddedWitness ==
  /\ Printing
  /\ Len(writer.lines) = 2
  /\ writer.lines[1].text = B(" a")
  /\ writer.lines[2].text = B("bb")

----------------------------------------------------------------------------
(* C27 *)

\* The indent Finish has reached after the first k lines (line 210).
RECURSIVE IndentAfter(_, _)
IndentAfter(lines, k) ==
  IF k = 0 THEN 0 ELSE IndentAfter(lines, k - 1) + lines[k].indent

\* No line is rendered at a negative indent, and the last leaves none.
Balanced(lines) ==
  /\ \A k \in 0..(Len(lines) - 1) : IndentAfter(lines, k) >= 0
  /\ IndentAfter(lines, Len(lines)) = 0

\* The step is the end of Write, where Finish renders the lines.
Finishes == wpc = "finish" /\ wpc' # "finish"

\* C27: whatever the input and the options, the lines Finish renders have a
\* running sum of indents that is never negative before a line and is zero
\* after the last.
C27_IndentBalanced == [][Finishes => Balanced(writer'.lines)]_vars

\* A block left unfolded, in it a group that was dropped and a block folded
\* after a message tried in it was rolled back.
C27_Witness ==
  /\ wpc = "written"
  /\ given = <<146, 1, 4, 11, 10, 1, 255>>
  /\ options = NoOptions
  /\ printed = B("18: {") \o <<chNewline>> \o B("  1:SGROUP") \o <<chNewline>>
                 \o B("  1: {") \o <<chBacktick>> \o B("ff") \o <<chBacktick>> \o B("}")
                 \o <<chNewline>> \o B("}") \o <<chNewline>>
  /\ \E k \in 1..Len(writer.lines) : writer.lines[k].indent < 0
  /\ \E k \in 1..Len(writer.lines) : writer.lines[k].indent > 0

----------------------------------------------------------------------------
(* C28 *)

\* Nothing has been called.
TerminatesInit == CodecIdle /\ ScanIdle /\ WriteIdle

\* Write(src, opts) is called.
CallWrite ==
  /\ ScanIdle
  /\ WriteIdle
  /\ \/ given' \in WriteInputs /\ options' \in FewOptions
     \/ given' \in CoreInputs /\ options' \in AllOptions
     \/ given' \in UnknownFieldInputs /\ options' \in SchemaOptions
  /\ unread' = given'
  /\ writer' = WriterFor(options')
  /\ printed' = <<>>
  /\ wpc' = IF given' = <<>> THEN "finish" ELSE "fields"
  /\ UNCHANGED <<codecVars, scanVars>>

\* NewScanner(text).Exec() is called.
CallExec ==
  /\ ScanIdle
  /\ WriteIdle
  /\ lexemes' \in ScanInputs
  /\ Input' = Join(lexemes')
  /\ pos' = ZeroPosition
  /\ frames' = <<Frame(NilToken)>>
  /\ ret' = [NoReturn EXCEPT !.state = "running"]
  /\ lexIdx' = 0
  /\ UNCHANGED <<codecVars, writeVars>>

TerminatesNext == CallWrite \/ CallExec \/ RoundNext

\* Neither translator has anything left to do: Write panicked, or Exec
\* returned.
Terminal ==
  \/ wpc \in {"panicked", "unmodelled"}
  \/ ret.state \in {"returned", "unmodelled"}

\* Write and Exec called on what the bounds give, a program that has not
\* ended taking its next step in the end: WF_vars(TerminatesNext) written
\* out, TerminatesNext being enabled exactly where Terminal is false.
SpecTerminates ==
  /\ TerminatesInit
  /\ [][TerminatesNext]_vars
  /\ ([]<>Terminal \/ []<><<TerminatesNext>>_vars)

\* The bytes of src from its byte k on.
Suffix(src, k) == SubSeq(src, k, Len(src))

\* decodeField on src either fails or leaves a proper suffix of src.
ConsumesOrFails(w, opts, src) ==
  Let(decodeField(NewLine(w), opts, src), LAMBDA d :
    d.ok => /\ Len(d.rest) < Len(src)
            /\ d.rest = Suffix(src, Len(src) - Len(d.rest) + 1))

\* Write has returned or panicked; Exec has returned.
WriteDone == wpc \in {"written", "panicked", "unmodelled"}

ExecDone == ret.state \in {"returned", "unmodelled"}

\* The step is a call of Scanner.next by exec.
CallsNext == ret.state = "running"

\* C28: a decodeField call that succeeds consumes at least one byte, the
\* loop of Write stops at the first that fails, and Write reaches Finish;
\* a call of Scanner.next advances the offset unless it returns the end of
\* the input, and Exec returns.
C28_Terminates ==
  /\ [](wpc = "fields" =>
          \A k \in 1..Len(unread) : ConsumesOrFails(writer, options, Suffix(unread, k)))
  /\ [][wpc = "fields" => (Len(unread') < Len(unread) \/ wpc' # "fields")]_vars
  /\ [][CallsNext =>
          \/ pos'.Offset > pos.Offset
          \/ Scanned.err = NoError /\ Scanned.tok.Kind = "tokenEOF"]_vars
  /\ (wpc \in {"fields", "finish"}) ~> WriteDone
  /\ (ret.state = "running") ~> ExecDone


\* Write has gone through nested loops and a failure to Finish, and Exec has
\* returned what it made of the text.
C28_Witness ==
  /\ given = <<146, 1, 4, 11, 10, 1, 255>>
  /\ options = NoOptions
  /\ wpc = "written"
  /\ unread = <<>>
  /\ ret.state = "returned"
  /\ pos.Offset = Len(printed)

----------------------------------------------------------------------------
(* C29 *)

\* The number of bytes decodeVarint took off the bytes given.
Consumed == Len(vBytes) - Len(vDec.rest)

\* The last of the bytes consumed that has a bit of the value set, the first
\* when none has.
LastSignificant ==
  SetMax({1} \cup {i \in 1..Consumed : vBytes[i] % 128 # 0})

\* The bytes given were decoded and what came of them encoded again.
Reencoded == vMode = "bytes" /\ vpc = "done" /\ vDec.ok

\* C29: when decodeVarint succeeds on bytes and returns (value, extra) after
\* consuming k of them, encodeVarint(value, extra) is those k bytes; extra
\* is not negative and is the number of bytes consumed after the last that
\* the value needs.
C29_DecodeThenEncode ==
  Reencoded =>
    /\ vDec.rest = SubSeq(vBytes, Consumed + 1, Len(vBytes))
    /\ vReenc = SubSeq(vBytes, 1, Consumed)
    /\ vDec.extraBytes >= 0
    /\ vDec.extraBytes = Consumed - LastSignificant
    /\ vDec.extraBytes = Consumed - CanonicalLen(vDec.value)

\* A zero in ten bytes, nine of them redundant, with bytes after it.
C29_Witness ==
  /\ Reencoded
  /\ vBytes = Repeat(128, 9) \o <<0>> \o <<128, 1>>
  /\ vDec.extraBytes = 9
  /\ vReenc = Repeat(128, 9) \o <<0>>

\* Redundant bytes after a byte of the value that follows a zero byte.
C29_InteriorWitness ==
  /\ Reencoded
  /\ vBytes = <<128, 128, 129, 128, 128, 0, 7>>
  /\ vDec.extraBytes = 3
  /\ vReenc = <<128, 128, 129, 128, 128, 0>>

----------------------------------------------------------------------------
(* C30 *)

\* Where in the innermost frame's output the pending tag begins, 0 when no
\* tag is pending.
PendingTagAt ==
  IF PendingTag = 0 THEN 0
  ELSE Len(Top.out)
       - (CanonicalLen(TagWord(lexemes[PendingTag].n, 0).v) + ModifierBefore(PendingTag))
       + 1

\* after begins with the bytes of before, the byte at patched, if there is
\* one, with the wire type w added to it.
KeptBut(before, after, patched, w) ==
  /\ Len(after) >= Len(before)
  /\ \A i \in 1..Len(before) :
       after[i] = IF i = patched THEN before[i] + w ELSE before[i]

\* The step leaves every byte emitted as it was, but the first byte of a tag
\* pending in the innermost frame, which gets the wire type.
EmittedKept ==
  IF ret'.state # "running"
  THEN ret'.out = Top.out
  ELSE IF StepCloses
  THEN /\ \A j \in 1..(Len(frames) - 2) : frames'[j].out = frames[j].out
       /\ KeptBut(frames[Len(frames) - 1].out, frames'[Len(frames')].out, 0, 0)
       /\ OutAfter = Top.out
  ELSE /\ \A j \in 1..(Len(frames) - 1) : frames'[j].out = frames[j].out
       /\ KeptBut(Top.out, frames'[Len(frames)].out, PendingTagAt,
                  InferredWireType(StepLx.class))
       /\ Len(frames') > Len(frames) => frames'[Len(frames')].out = <<>>

\* C30: a long-form:N pads what the next lexeme puts out and nothing else:
\* the length prefix of the block whose `{` it stands before, not a varint
\* inside the block, and nothing after a `}`; a tag left pending at `}` or
\* at the end of the input keeps wire type 0; and no byte emitted changes
\* but the first byte of the pending inferred tag when its wire type is
\* OR-ed in.
C30_PendingStaysInFrame ==
  [][(Stepped /\ ~StepFails) =>
       /\ (StepLx.class \in VarintClasses /\ ModifierBefore(lexIdx') = 0) =>
            IsVarintOf(Appended, WireWord(StepLx), 0)
       /\ StepCloses =>
            /\ ModifierBefore(lexIdx') = 0
            /\ IsVarintOf(SubSeq(frames'[Len(frames')].out,
                                 Len(frames[Len(frames) - 1].out) + 1,
                                 Len(frames'[Len(frames')].out) - Len(Top.out)),
                          U64(Len(Top.out)), ModifierBefore(MatchOpen(lexIdx')))
       /\ (PendingTag # 0 /\ StepLx.class \in {"rcurly", "eof"}) =>
            IsVarintOf(SubSeq(OutAfter, PendingTagAt, Len(Top.out)),
                       TagWord(lexemes[PendingTag].n, 0).v, ModifierBefore(PendingTag))
       /\ EmittedKept]_vars

\* long-form:1 before a block whose first lexeme is an integer, an inferred
\* tag pending at its `}` and an i32 after it: the prefix is one byte longer,
\* the 5 is one byte, the tag keeps wire type 0.
C30_Witness ==
  /\ Len(lexemes) = 6
  /\ lexemes[1].class = "longform" /\ lexemes[1].length = 1
  /\ lexemes[2].class = "lcurly" /\ lexemes[3].class = "int"
  /\ lexemes[4].class = "itag" /\ lexemes[5].class = "rcurly"
  /\ lexemes[6].class = "i32"
  /\ ret.state = "returned" /\ ret.err = NoError
  /\ ret.out = <<130, 0, 5, 8, 7, 0, 0, 0>>

====
